---------------------------- MODULE Spec2Model ----------------------------
(***************************************************************************)
(* A model of claude-code-rs: the agent loop of Session::send_message      *)
(* (crates/core/src/session.rs) driving ApiClient::stream_message          *)
(* (crates/core/src/api.rs), the tool pass execute_tool_calls, and the     *)
(* rule engine PermissionConfig::check (crates/core/src/permission.rs)     *)
(* over configurations merged as in crates/core/src/config.rs.             *)
(*                                                                         *)
(* Spec      the session: send_message / clear, one step per await point   *)
(* SpecPerm  PermissionConfig::check applied to bounded inputs             *)
(***************************************************************************)
EXTENDS Integers, Sequences, FiniteSets, TLC

VARIABLES
    \* ---- Session (session.rs:12-20) and the locals of send_message
    messages,          \* Session.messages
    rollback_len,      \* send_message: rollback_len
    cancel,            \* the CancellationToken: TRUE once cancel() was called
    pc,                \* where the send_message future is suspended
    result,            \* what the last send_message call returned
    content,           \* stream_result.content of the current iteration
    tool_results,      \* what execute_tool_calls returned in this iteration
    \* ---- ApiClient::stream_message
    state,             \* StreamState: blocks, current, stop_reason
    es,                \* the EventSource: "none", "open" or "closed"
    stream_result,     \* what the last stream_message call returned
    \* ---- execute_tool_calls
    bi,                \* index of the next block of phase 1
    immediate_results, \* immediate_results
    prepared,          \* prepared
    outputs,           \* output of each prepared call, once it has completed
    \* ---- counters that bound the run
    requests,          \* API requests issued so far
    iter,              \* stream_message calls of the current send_message
    starts,            \* content_block_start events received so far
    \* ---- history, read by the properties only
    pre,               \* Session.messages when send_message was called
    cancelAt,          \* the await point at which the token was cancelled
    headCancelled,     \* the loop head saw the token cancelled
    consulted,         \* ids for which PermissionHandler::allow was called
    approved,          \* ids for which it returned true
    decided,           \* ids whose phase 1 decision has been taken
    executed,          \* ids whose tool future was started
    events,            \* the EventHandler calls of execute_tool_calls, in order
    \* ---- PermissionConfig::check (SpecPerm)
    layerA, layerB,    \* two configuration layers
    tool,              \* the invocation
    decisionAB,        \* check on merge(A, B)
    decisionBA,        \* check on merge(B, A)
    \* ---- the operation checked on its own
    op                 \* its state; <<>> in the specifications above

\* The state of each operation checked on its own.
pmatch == op       \* pattern_matches (SpecPattern)
trunc == op        \* truncate_tool_results (SpecTruncate)
dec == op          \* the stream decoder on its own (SpecDecoder)
rq == op           \* send_message over the request-size check (SpecRequest)
walker == op       \* FileWalker over a changing directory (SpecWalk)
layers == op       \* Mergeable::merge on three layers (SpecMerge)
edit == op         \* EditTool::execute (SpecEdit)
query == op        \* SearchIndex::search (SpecSearch)
pathcheck == op    \* PermissionConfig::check on paths with .. components (SpecPathCheck)
snip == op         \* extract_snippets on one file (SpecSnippet)
sindex == op       \* SearchIndex over a changing directory (SpecIndex)
tui == op          \* TUI and session task (SpecTui)

\* ---- pattern_matches (SpecPattern)
arg_value == pmatch.arg_value       \* the arguments
arg_pattern == pmatch.arg_pattern
matched == pmatch.matched           \* "true" or "false" as returned, "pending" before the call
\* ---- truncate_tool_results on its own (SpecTruncate)
tr_messages == trunc.tr_messages \* the messages passed to truncate_tool_results
\* what it returned; its status is "pending" before the call
truncated_messages == trunc.truncated_messages

\* ---- the stream decoder on its own (SpecDecoder)
sink == dec.sink                 \* the EventHandler calls made by the decoder, in order
opened == dec.opened             \* the last content_block_start and the deltas sent since
last == dec.last                 \* the last event the decoder handled
fed == dec.fed                   \* events the server has sent

\* ---- send_message over the request-size check of stream_message (SpecRequest)
\* Session.messages, with the text of each content
rq_messages == rq.messages
\* send_message: rollback_len
rq_rollback_len == rq.rollback_len
\* "idle", "head", "streaming", "returned" or "panicked"
rq_pc == rq.pc
\* what send_message returned: "none", "Ok", "RequestTooLarge", "StreamError"
rq_result == rq.result
\* Session.messages when send_message was called
rq_pre == rq.pre
\* stream_message calls of the current send_message
rq_iter == rq.iter
\* stream_message: body_size, -1 before it is computed
body_size == rq.body_size
\* the current stream_message call created its EventSource
issued == rq.issued

\* ---- FileWalker over a changing directory (SpecWalk)
\* the files under root_dir
fs == walker.fs
\* FileWalker.mtimes
mtimes == walker.mtimes
\* what the last walk returned, and the state it started from
walk_result == walker.walk_result
\* paths created, modified or deleted since the last walk
dirty == walker.dirty
\* some file has had a modified-time before the epoch
irregular == walker.irregular

\* ---- Mergeable::merge on three layers (SpecMerge)
\* three PermissionConfig values
cfgA == layers.cfgA
cfgB == layers.cfgB
cfgC == layers.cfgC
\* the merges computed from them; status "pending" before
merged == layers.merged

\* ---- EditTool::execute (SpecEdit)
\* old_string, new_string, replace_all
ed_input == edit.input
\* the file when execute was called
ed_before == edit.before
\* the file
ed_file == edit.file
\* the ToolOutput: "pending" before the call
ed_output == edit.output

\* ---- SearchIndex::search (SpecSearch)
\* what Bm25Index::search returned: paths, best first
bm25_results == query.bm25_results
\* what SemanticIndex::search returned
semantic_results == query.semantic_results
\* the limit argument
q_limit == query.limit
\* search has returned
searched == query.searched
\* search: merged
rrf_merged == query.merged
\* the hits returned
hits == query.hits

sessionVars == <<messages, rollback_len, cancel, pc, result, content, tool_results,
                 state, es, stream_result, bi, immediate_results, prepared, outputs,
                 requests, iter, starts, pre, cancelAt, headCancelled,
                 consulted, approved, decided, executed, events>>
moreVars == <<op>>
permVars == <<layerA, layerB, tool, decisionAB, decisionBA>>
coreVars == <<sessionVars, permVars>>
notRq == coreVars
notWalk == coreVars
notMerge == coreVars
notEdit == coreVars
notSearch == coreVars
notPathCheck == coreVars
notSnippet == coreVars
notIndex == coreVars
notTui == coreVars
otherVars == <<permVars, moreVars>>
vars == <<sessionVars, otherVars>>

---------------------------------------------------------------------------
(* Bounds *)

MaxRequests == 2    \* API requests issued in a run
MaxBlocks == 3      \* content_block_start events received in a run

---------------------------------------------------------------------------
(* Content model (api.rs:31-108) *)

Content_text == [kind |-> "Text", blocks |-> <<>>]
Content_blocks(bs) == [kind |-> "Blocks", blocks |-> bs]
Message(r, c) == [role |-> r, content |-> c]

Text(t) == [type |-> "text", text |-> t]
ToolUse(i, n, input) == [type |-> "tool_use", id |-> i, name |-> n, input |-> input]
ToolResult(i, c, e) == [type |-> "tool_result", tool_use_id |-> i, content |-> c, is_error |-> e]

StopReason == {"EndTurn", "ToolUse", "MaxTokens"}

\* Tool names the model may put in a tool_use block: a registered tool and
\* a name that to_permission_tool does not map.
ToolNames == {"bash", "Glob"}

\* The bootstrap messages built by SessionBuilder::permissions.
bootstrap_messages == << Message("user", Content_text), Message("assistant", Content_text) >>
bootstrap_len == Len(bootstrap_messages)

NoWalk == [kind |-> "none", changes |-> {}, removed |-> {}, table |-> <<>>, dirty |-> {}]
MoreIdle == op = <<>>

\* StreamState::new
StreamState_new ==
    [blocks |-> <<>>, current |-> [kind |-> "None"],
     usage |-> [input_tokens |-> 0, output_tokens |-> 0], stop_reason |-> "EndTurn"]


---------------------------------------------------------------------------
(* Stream decoder (api.rs:125-220, 435-501).  A text is a sequence of      *)
(* characters.  The data of an event is the record of the fields that the  *)
(* decoder reads from it; `malformed` says that the data is not JSON.      *)

\* JSON values: an object has at most one member here, under the key k.
JsonNumber == [t |-> "number", members |-> <<>>]
JsonString == [t |-> "string", members |-> <<>>]
JsonObject(members) == [t |-> "object", members |-> members]
EmptyObject == JsonObject(<<>>)

\* The parse of one JSON value at the head of a text whose characters are
\* { } : the number 1 and the string "k" (written k): the value and the rest
\* of the text, or a failure.
ParseFail == [ok |-> FALSE, value |-> EmptyObject, rest |-> <<>>]
RECURSIVE parse_value(_)
parse_value(s) ==
    IF s = <<>> THEN ParseFail
    ELSE IF Head(s) = "1" THEN [ok |-> TRUE, value |-> JsonNumber, rest |-> Tail(s)]
    ELSE IF Head(s) = "k" THEN [ok |-> TRUE, value |-> JsonString, rest |-> Tail(s)]
    ELSE IF Head(s) = "{"
      THEN IF Len(s) >= 2 /\ s[2] = "}"
             THEN [ok |-> TRUE, value |-> EmptyObject, rest |-> SubSeq(s, 3, Len(s))]
           ELSE IF Len(s) >= 3 /\ s[2] = "k" /\ s[3] = ":"
             THEN LET r == parse_value(SubSeq(s, 4, Len(s))) IN
                  IF r.ok /\ r.rest # <<>> /\ Head(r.rest) = "}"
                    THEN [ok |-> TRUE, value |-> JsonObject(<<r.value>>), rest |-> Tail(r.rest)]
                    ELSE ParseFail
           ELSE ParseFail
    ELSE ParseFail

\* serde_json::from_str: the whole text must be one value.
from_str(json) ==
    LET r == parse_value(json) IN
    IF r.ok /\ r.rest = <<>> THEN [ok |-> TRUE, value |-> r.value]
    ELSE [ok |-> FALSE, value |-> EmptyObject]

\* A call of the EventHandler made by the decoder.
on_text(chunk) == [call |-> "on_text", arg |-> chunk]
on_error(msg) == [call |-> "on_error", arg |-> msg]

\* A start_block that keeps an open text block when another text block starts.
start_block_keepsText(st, type, id, name) ==
    [st EXCEPT !.current =
        CASE type = "text"     -> IF @.kind = "Text" THEN @ ELSE [kind |-> "Text", text |-> <<>>]
          [] type = "tool_use" -> [kind |-> "ToolUse", id |-> id, name |-> name, json |-> <<>>]
          [] OTHER             -> [kind |-> "None"]]

\* StreamState::start_block
start_block(st, type, id, name) ==
    [st EXCEPT !.current =
        CASE type = "text"     -> [kind |-> "Text", text |-> <<>>]
          [] type = "tool_use" -> [kind |-> "ToolUse", id |-> id, name |-> name, json |-> <<>>]
          [] OTHER             -> [kind |-> "None"]]

\* An apply_delta that puts a text chunk in front of the text received so far.
apply_delta_prepends(st, delta) ==
    IF ~delta.present THEN [state |-> st, emit |-> <<>>]
    ELSE CASE st.current.kind = "Text" /\ delta.type = "text_delta" /\ delta.has_chunk ->
                [state |-> [st EXCEPT !.current.text = delta.chunk \o @],
                 emit |-> <<on_text(delta.chunk)>>]
           [] st.current.kind = "ToolUse" /\ delta.type = "input_json_delta" /\ delta.has_chunk ->
                [state |-> [st EXCEPT !.current.json = @ \o delta.chunk], emit |-> <<>>]
           [] OTHER -> [state |-> st, emit |-> <<>>]

\* An apply_delta that takes the chunk of any delta into an open text block.
apply_delta_anyType(st, delta) ==
    IF ~delta.present THEN [state |-> st, emit |-> <<>>]
    ELSE CASE st.current.kind = "Text" /\ delta.has_chunk ->
                [state |-> [st EXCEPT !.current.text = @ \o delta.chunk],
                 emit |-> <<on_text(delta.chunk)>>]
           [] st.current.kind = "ToolUse" /\ delta.type = "input_json_delta" /\ delta.has_chunk ->
                [state |-> [st EXCEPT !.current.json = @ \o delta.chunk], emit |-> <<>>]
           [] OTHER -> [state |-> st, emit |-> <<>>]

\* StreamState::apply_delta: the new state and the handler calls made.
apply_delta(st, delta) ==
    IF ~delta.present THEN [state |-> st, emit |-> <<>>]
    ELSE CASE st.current.kind = "Text" /\ delta.type = "text_delta" /\ delta.has_chunk ->
                [state |-> [st EXCEPT !.current.text = @ \o delta.chunk],
                 emit |-> <<on_text(delta.chunk)>>]
           [] st.current.kind = "ToolUse" /\ delta.type = "input_json_delta" /\ delta.has_chunk ->
                [state |-> [st EXCEPT !.current.json = @ \o delta.chunk], emit |-> <<>>]
           [] OTHER -> [state |-> st, emit |-> <<>>]

\* A finish_block that drops a tool_use block whose JSON does not parse.
finish_block_parseFailureDrops(st) ==
    CASE st.current.kind = "None" -> st
      [] st.current.kind = "Text" ->
            [st EXCEPT !.blocks = Append(@, Text(st.current.text)),
                       !.current = [kind |-> "None"]]
      [] OTHER ->
            IF from_str(st.current.json).ok
              THEN [st EXCEPT !.blocks = Append(@, ToolUse(st.current.id, st.current.name,
                                                           from_str(st.current.json).value)),
                              !.current = [kind |-> "None"]]
              ELSE [st EXCEPT !.current = [kind |-> "None"]]

\* StreamState::finish_block
finish_block(st) ==
    CASE st.current.kind = "None" -> st
      [] st.current.kind = "Text" ->
            [st EXCEPT !.blocks = Append(@, Text(st.current.text)),
                       !.current = [kind |-> "None"]]
      [] OTHER ->
            LET parsed == from_str(st.current.json)
                input == IF parsed.ok THEN parsed.value ELSE EmptyObject
            IN  [st EXCEPT !.blocks = Append(@, ToolUse(st.current.id, st.current.name, input)),
                           !.current = [kind |-> "None"]]

\* The stop_reason mapping of the message_delta arm.
stop_reason_of(reason) ==
    CASE reason = "tool_use"   -> "ToolUse"
      [] reason = "max_tokens" -> "MaxTokens"
      [] OTHER                 -> "EndTurn"

\* A handle_sse_event that never reports the stream as complete.
HandleOk_neverDone(st, done, emit) == [state |-> st, done |-> FALSE, emit |-> emit, err |-> FALSE]

\* What handle_sse_event returns and does: Ok(done) with the new state and
\* the handler calls made, or Err from the `?` of a parse.
HandleOk(st, done, emit) == [state |-> st, done |-> done, emit |-> emit, err |-> FALSE]
HandleErr(st) == [state |-> st, done |-> FALSE, emit |-> <<>>, err |-> TRUE]

\* handle_sse_event
handle_sse_event(st, ev) ==
    CASE ev.event = "message_start" ->
            IF ev.malformed THEN HandleErr(st)
            ELSE HandleOk([st EXCEPT !.usage.input_tokens =
                              IF ev.input_tokens >= 0 THEN ev.input_tokens ELSE @],
                          FALSE, <<>>)
      [] ev.event = "content_block_start" ->
            IF ev.malformed THEN HandleErr(st)
            ELSE HandleOk(start_block(st, ev.type, ev.id, ev.name), FALSE, <<>>)
      [] ev.event = "content_block_delta" ->
            IF ev.malformed THEN HandleErr(st)
            ELSE LET r == apply_delta(st, ev.delta) IN HandleOk(r.state, FALSE, r.emit)
      [] ev.event = "content_block_stop" -> HandleOk(finish_block(st), FALSE, <<>>)
      [] ev.event = "message_delta" ->
            IF ev.malformed THEN HandleErr(st)
            ELSE HandleOk([st EXCEPT
                              !.usage.output_tokens =
                                  IF ev.output_tokens >= 0 THEN ev.output_tokens ELSE @,
                              !.stop_reason =
                                  IF ev.has_reason THEN stop_reason_of(ev.reason) ELSE @],
                          FALSE, <<>>)
      [] ev.event = "message_stop" -> HandleOk(st, TRUE, <<>>)
      [] ev.event = "error" ->
            IF ev.malformed THEN HandleErr(st)
            ELSE HandleOk(st, TRUE,
                          <<on_error(IF ev.has_message THEN ev.message ELSE "Unknown error")>>)
      [] OTHER -> HandleOk(st, FALSE, <<>>)

\* The events of the stream, by the fields the decoder reads.  A token count
\* of -1 stands for a count that is absent or not a u64.
content_block_start(type, id, name) ==
    [event |-> "content_block_start", malformed |-> FALSE, type |-> type, id |-> id, name |-> name]
content_block_delta(type, chunk) ==
    [event |-> "content_block_delta", malformed |-> FALSE,
     delta |-> [present |-> TRUE, type |-> type, has_chunk |-> TRUE, chunk |-> chunk]]
content_block_stop == [event |-> "content_block_stop", malformed |-> FALSE]
message_start(input_tokens) ==
    [event |-> "message_start", malformed |-> FALSE, input_tokens |-> input_tokens]
message_delta(reason, output_tokens) ==
    [event |-> "message_delta", malformed |-> FALSE, has_reason |-> TRUE, reason |-> reason,
     output_tokens |-> output_tokens]
message_stop == [event |-> "message_stop", malformed |-> FALSE]
error(message) ==
    [event |-> "error", malformed |-> FALSE, has_message |-> TRUE, message |-> message]
ping == [event |-> "ping", malformed |-> FALSE]
\* An event of a type that handle_sse_event does not name; its data is not read.
unknown_event == [event |-> "unknown", malformed |-> TRUE]

\* The events a server may send next in a run of the session: well-formed
\* ones, with empty text and JSON chunks and no token counts.  Tool-use ids
\* are the server's and are unique: the id of a block is the number of its
\* content_block_start.
BlockTypes == {"text", "tool_use", "thinking"}
WireStopReasons == {"end_turn", "tool_use", "max_tokens"}
SseEvents ==
    (IF starts < MaxBlocks
       THEN {content_block_start("tool_use", starts + 1, n) : n \in ToolNames}
            \cup {content_block_start(t, starts + 1, "") : t \in BlockTypes \ {"tool_use"}}
       ELSE {})
    \cup {content_block_delta(t, <<>>) : t \in {"text_delta", "input_json_delta"}}
    \cup {content_block_stop, message_stop, error("overloaded"), ping, message_start(-1)}
    \cup {message_delta(r, -1) : r \in WireStopReasons}

---------------------------------------------------------------------------
(* Tool registry and permission mapping (tools/mod.rs) *)

\* default_registry: the names of the registered tools.
default_registry == {"bash", "file_read", "file_write"}

\* ToolRegistry::get: whether a tool of that name is registered.
ToolRegistry_get(name) == name \in default_registry

\* to_permission_tool: "Some" when the name maps to a permission::Tool.
to_permission_tool(name) ==
    CASE name = "bash"       -> "Some"
      [] name = "file_read"  -> "Some"
      [] name = "file_write" -> "Some"
      [] OTHER               -> "None"

---------------------------------------------------------------------------
(* Session (session.rs) *)

\* Vec::truncate
truncate(msgs, len) == IF len < Len(msgs) THEN SubSeq(msgs, 1, len) ELSE msgs

\* An error arm that returns without truncating.
RollBack_none(msgs, len) == msgs

\* A rollback that keeps the user message of the turn.
RollBack_keepsUser(msgs, len) == truncate(msgs, len + 1)

\* The Err arm of send_message: roll back all messages added during this turn.
RollBack(msgs, len) == truncate(msgs, len)

\* A clear that empties the conversation.
clear_all(msgs) == truncate(msgs, 0)

\* Session::clear
clear(msgs) == truncate(msgs, bootstrap_len)

\* The ids of the ToolUse blocks of a block list, in order.
RECURSIVE ToolUseIds(_)
ToolUseIds(bs) ==
    IF bs = <<>> THEN <<>>
    ELSE (IF Head(bs).type = "tool_use" THEN <<Head(bs).id>> ELSE <<>>) \o ToolUseIds(Tail(bs))

\* The tool_use_ids of the ToolResult blocks of a block list, in order.
RECURSIVE ToolResultIds(_)
ToolResultIds(bs) ==
    IF bs = <<>> THEN <<>>
    ELSE (IF Head(bs).type = "tool_result" THEN <<Head(bs).tool_use_id>> ELSE <<>>)
         \o ToolResultIds(Tail(bs))

Range(s) == {s[i] : i \in DOMAIN s}

\* A call of the EventHandler made for the ToolUse block id.
Ev(kind, id) == [event |-> kind, id |-> id]

\* A phase 1 that does not close a denied call.
Phase1Events_deniedNotEnded(id, allowed, known) ==
    <<Ev("on_tool_use_start", id)>>
    \o (IF ~allowed THEN <<>>
        ELSE <<Ev("on_tool_executing", id)>>
             \o (IF known THEN <<>>
                 ELSE <<Ev("on_tool_result", id), Ev("on_tool_use_end", id)>>))

\* The EventHandler calls of phase 1 for one ToolUse block
\* (session.rs:286, 296, 305, 319-320).
Phase1Events(id, allowed, known) ==
    <<Ev("on_tool_use_start", id)>>
    \o (IF ~allowed THEN <<Ev("on_tool_use_end", id)>>
        ELSE <<Ev("on_tool_executing", id)>>
             \o (IF known THEN <<>>
                 ELSE <<Ev("on_tool_result", id), Ev("on_tool_use_end", id)>>))

\* The EventHandler calls of phase 3 (session.rs:346-348).
RECURSIVE Phase3Events(_)
Phase3Events(prep) ==
    IF prep = <<>> THEN <<>>
    ELSE <<Ev("on_tool_result", Head(prep).id), Ev("on_tool_use_end", Head(prep).id)>>
         \o Phase3Events(Tail(prep))

NoPass ==
    /\ content' = <<>>
    /\ tool_results' = <<>>
    /\ bi' = 0
    /\ immediate_results' = <<>>
    /\ prepared' = <<>>
    /\ outputs' = <<>>
    /\ consulted' = {}
    /\ approved' = {}
    /\ decided' = {}
    /\ executed' = {}
    /\ events' = <<>>

\* A check that lets a call through when no invocation could be mapped.
Allowed_unmappedPasses(perm_tool, answer) == IF perm_tool = "Some" THEN answer ELSE TRUE

\* The permission check of phase 1 (session.rs:289-293): the policy's answer
\* for a mapped invocation, false for an unmapped one.
Allowed(perm_tool, answer) == IF perm_tool = "Some" THEN answer ELSE FALSE

\* send_message returns res.
Return(res) ==
    /\ pc' = "idle"
    /\ result' = res
    /\ NoPass

Init ==
    /\ messages = bootstrap_messages
    /\ rollback_len = 0
    /\ cancel = FALSE
    /\ pc = "idle"
    /\ result = "none"
    /\ content = <<>>
    /\ tool_results = <<>>
    /\ state = StreamState_new
    /\ es = "none"
    /\ stream_result = "none"
    /\ bi = 0
    /\ immediate_results = <<>>
    /\ prepared = <<>>
    /\ outputs = <<>>
    /\ requests = 0
    /\ iter = 0
    /\ starts = 0
    /\ pre = <<>>
    /\ cancelAt = "none"
    /\ headCancelled = FALSE
    /\ consulted = {}
    /\ approved = {}
    /\ decided = {}
    /\ executed = {}
    /\ events = <<>>
    /\ layerA = <<>>
    /\ layerB = <<>>
    /\ tool = <<>>
    /\ decisionAB = "pending"
    /\ decisionBA = "pending"
    /\ MoreIdle

\* send_message up to the loop head (session.rs:165-191), called as
\* session_loop calls it, with a fresh token (tui/mod.rs:367-370).
SendMessage ==
    /\ pc = "idle"
    /\ rollback_len' = Len(messages)
    /\ pre' = messages
    /\ messages' = Append(messages, Message("user", Content_text))
    /\ cancel' = FALSE
    /\ cancelAt' = "none"
    /\ headCancelled' = FALSE
    /\ pc' = "loop_head"
    /\ result' = "none"
    /\ iter' = 0
    /\ stream_result' = "none"
    /\ NoPass
    /\ UNCHANGED <<state, es, requests, starts, otherVars>>

\* The head of the loop (session.rs:193-207) and stream_message up to its
\* first select (api.rs:352-388): the pre-flight may fail (request too
\* large, event source not created), and then the turn is rolled back.
LoopHead ==
    /\ pc = "loop_head"
    /\ IF cancel
         THEN /\ headCancelled' = TRUE
              /\ pc' = "idle"
              /\ result' = "Ok"
              /\ UNCHANGED <<messages, state, es, stream_result, requests, iter, starts>>
         ELSE \E sent \in (IF requests < MaxRequests THEN BOOLEAN ELSE {FALSE}) :
              /\ iter' = iter + 1
              /\ UNCHANGED headCancelled
              /\ IF sent
                   THEN /\ requests' = requests + 1
                        /\ state' = StreamState_new
                        /\ es' = "open"
                        /\ pc' = "stream"
                        /\ UNCHANGED <<messages, result, stream_result, starts>>
                   ELSE /\ stream_result' = "RequestTooLarge"
                        /\ messages' = RollBack(messages, rollback_len)
                        /\ pc' = "idle"
                        /\ result' = "RequestTooLarge"
                        /\ UNCHANGED <<requests, starts, state, es>>
    /\ NoPass
    /\ UNCHANGED <<rollback_len, cancel, pre, cancelAt, otherVars>>


\* A loop that breaks on EndTurn only and runs the tool pass otherwise.
AfterStreamOk_maxTokensContinues(st) ==
    /\ stream_result' = "Ok"
    /\ state' = StreamState_new
    /\ messages' = Append(messages, Message("assistant", Content_blocks(st.blocks)))
    /\ tool_results' = <<>>
    /\ immediate_results' = <<>>
    /\ prepared' = <<>>
    /\ outputs' = <<>>
    /\ consulted' = {}
    /\ approved' = {}
    /\ decided' = {}
    /\ executed' = {}
    /\ events' = <<>>
    /\ IF st.stop_reason = "EndTurn"
         THEN /\ pc' = "idle"
              /\ result' = "Ok"
              /\ content' = <<>>
              /\ bi' = 0
         ELSE /\ pc' = "perm"
              /\ content' = st.blocks
              /\ bi' = 1
              /\ UNCHANGED result

\* send_message after stream_message returned Ok(st) (session.rs:220-239),
\* up to the first permission check of execute_tool_calls.
AfterStreamOk(st) ==
    /\ stream_result' = "Ok"
    /\ state' = StreamState_new
    /\ messages' = Append(messages, Message("assistant", Content_blocks(st.blocks)))
    /\ tool_results' = <<>>
    /\ immediate_results' = <<>>
    /\ prepared' = <<>>
    /\ outputs' = <<>>
    /\ consulted' = {}
    /\ approved' = {}
    /\ decided' = {}
    /\ executed' = {}
    /\ events' = <<>>
    /\ IF st.stop_reason # "ToolUse"
         THEN /\ pc' = "idle"
              /\ result' = "Ok"
              /\ content' = <<>>
              /\ bi' = 0
         ELSE /\ pc' = "perm"
              /\ content' = st.blocks
              /\ bi' = 1
              /\ UNCHANGED result

\* One turn of the select loop whose event branch yields Ok(Event::Message)
\* (api.rs:392-404): the event is handled; message_stop and error end the
\* stream, the connection is closed and stream_message returns Ok.
SseMessage ==
    /\ pc = "stream"
    /\ \E ev \in SseEvents :
         LET r == handle_sse_event(state, ev) IN
         IF r.done
           THEN /\ es' = "closed"
                /\ AfterStreamOk(r.state)
                /\ UNCHANGED starts
           ELSE /\ state' = r.state
                /\ starts' = IF ev.event = "content_block_start" THEN starts + 1 ELSE starts
                /\ UNCHANGED <<es, messages, pc, result, content, tool_results, stream_result,
                               bi, immediate_results, prepared, outputs,
                               consulted, approved, decided, executed, events>>
    /\ UNCHANGED <<rollback_len, cancel, requests, iter, pre, cancelAt,
                   headCancelled, otherVars>>

\* The event branch yields None or Err(StreamEnded) (api.rs:393, 405): the
\* loop is left and stream_message returns Ok with what was decoded so far;
\* the event source is dropped.
SseStreamEnded ==
    /\ pc = "stream"
    /\ es' = "closed"
    /\ AfterStreamOk(state)
    /\ UNCHANGED <<rollback_len, cancel, requests, iter, starts, pre,
                   cancelAt, headCancelled, otherVars>>

\* The event branch yields another Err(e), or the data of an event is not
\* JSON (api.rs:398, 406-420): stream_message returns the error, and
\* send_message rolls back and returns it (session.rs:211-217).
SseError ==
    /\ pc = "stream"
    /\ \E e \in {"StreamError", "BadRequest"} :
         /\ stream_result' = e
         /\ result' = e
    /\ es' = "closed"
    /\ messages' = RollBack(messages, rollback_len)
    /\ pc' = "idle"
    /\ state' = StreamState_new
    /\ NoPass
    /\ UNCHANGED <<rollback_len, cancel, requests, iter, starts, pre,
                   cancelAt, headCancelled, otherVars>>

\* The cancel branch of the select (api.rs:424-427), enabled once the token
\* is cancelled; when an event is ready too, the select takes either branch.
SelectCancelled ==
    /\ pc = "stream"
    /\ cancel
    /\ es' = "closed"
    /\ stream_result' = "Cancelled"
    /\ result' = "Cancelled"
    /\ messages' = RollBack(messages, rollback_len)
    /\ pc' = "idle"
    /\ state' = StreamState_new
    /\ NoPass
    /\ UNCHANGED <<rollback_len, cancel, requests, iter, starts, pre,
                   cancelAt, headCancelled, otherVars>>

\* session_loop receives Stop while the send_message future is pending
\* (tui/mod.rs:373-383): at the select of stream_message or at join_all.
Cancel ==
    /\ \/ pc = "stream"
       \/ pc = "exec" /\ \E i \in DOMAIN outputs : outputs[i] = "pending"
    /\ ~cancel
    /\ cancel' = TRUE
    /\ cancelAt' = pc
    /\ UNCHANGED <<messages, rollback_len, pc, result, content, tool_results, state, es,
                   stream_result, bi, immediate_results, prepared, outputs,
                   requests, iter, starts, pre, headCancelled, consulted, approved,
                   decided, executed, events, otherVars>>

\* Phase 1 of execute_tool_calls for one block (session.rs:280-327).  The
\* PermissionHandler is any implementation: its answer is a free choice.
PermissionCheck ==
    /\ pc = "perm"
    /\ bi <= Len(content)
    /\ bi' = bi + 1
    /\ LET block == content[bi] IN
       IF block.type # "tool_use"
         THEN UNCHANGED <<immediate_results, prepared, consulted, approved, decided, events>>
         ELSE LET perm_tool == to_permission_tool(block.name) IN
              \E answer \in (IF perm_tool = "Some" THEN BOOLEAN ELSE {FALSE}) :
              LET allowed == Allowed(perm_tool, answer) IN
              /\ consulted' = IF perm_tool = "Some" THEN consulted \cup {block.id} ELSE consulted
              /\ approved' = IF perm_tool = "Some" /\ answer
                               THEN approved \cup {block.id} ELSE approved
              /\ decided' = decided \cup {block.id}
              /\ events' = events \o Phase1Events(block.id, allowed, ToolRegistry_get(block.name))
              /\ IF ~allowed
                   THEN /\ immediate_results' = Append(immediate_results,
                               ToolResult(block.id, "Permission denied by user.", TRUE))
                        /\ UNCHANGED prepared
                   ELSE IF ToolRegistry_get(block.name)
                   THEN /\ prepared' = Append(prepared, [id |-> block.id, name |-> block.name])
                        /\ UNCHANGED immediate_results
                   ELSE /\ immediate_results' = Append(immediate_results,
                               ToolResult(block.id, "Unknown tool", TRUE))
                        /\ UNCHANGED prepared
    /\ UNCHANGED <<messages, rollback_len, cancel, pc, result, content, tool_results, state,
                   es, stream_result, outputs, requests, iter, starts, pre, cancelAt,
                   headCancelled, executed, otherVars>>

\* Phase 2 begins (session.rs:333-339): join_all starts every prepared call.
JoinAll ==
    /\ pc = "perm"
    /\ bi > Len(content)
    /\ pc' = "exec"
    /\ outputs' = [i \in DOMAIN prepared |-> "pending"]
    /\ executed' = {prepared[i].id : i \in DOMAIN prepared}
    /\ UNCHANGED <<messages, rollback_len, cancel, result, content, tool_results, state, es,
                   stream_result, bi, immediate_results, prepared, requests, iter,
                   starts, pre, cancelAt, headCancelled, consulted, approved, decided,
                   events, otherVars>>

\* One of the running tools completes, in any order, with a ToolOutput.
ToolCompletes ==
    /\ pc = "exec"
    /\ \E i \in DOMAIN outputs :
         /\ outputs[i] = "pending"
         /\ \E out \in {"success", "error"} : outputs' = [outputs EXCEPT ![i] = out]
    /\ UNCHANGED <<messages, rollback_len, cancel, pc, result, content, tool_results, state,
                   es, stream_result, bi, immediate_results, prepared, requests, iter,
                   starts, pre, cancelAt, headCancelled, consulted, approved, decided,
                   executed, events, otherVars>>

\* A phase 3 that starts from an empty list instead of immediate_results.
Phase3_dropsImmediate(immediate, prep, outs) ==
    [i \in DOMAIN prep |-> ToolResult(prep[i].id, "output", outs[i] = "error")]

\* Phase 3 (session.rs:345-356): the results of the pass.
Phase3(immediate, prep, outs) ==
    immediate \o [i \in DOMAIN prep |->
                    ToolResult(prep[i].id, "output", outs[i] = "error")]

\* A pass whose failed call ends send_message with an error and a rollback.
Collect_errorEndsCall ==
    /\ pc = "exec"
    /\ \A i \in DOMAIN outputs : outputs[i] # "pending"
    /\ LET results == Phase3(immediate_results, prepared, outputs) IN
       /\ tool_results' = results
       /\ events' = events \o Phase3Events(prepared)
       /\ IF \E k \in DOMAIN results : results[k].is_error
            THEN /\ pc' = "idle"
                 /\ result' = "ToolError"
                 /\ messages' = RollBack(messages, rollback_len)
            ELSE IF results = <<>>
            THEN /\ pc' = "idle"
                 /\ result' = "Ok"
                 /\ UNCHANGED messages
            ELSE /\ messages' = Append(messages, Message("user", Content_blocks(results)))
                 /\ pc' = "loop_head"
                 /\ UNCHANGED result
    /\ UNCHANGED <<rollback_len, cancel, content, state, es, stream_result, bi,
                   immediate_results, prepared, outputs, requests, iter, starts, pre,
                   cancelAt, headCancelled, consulted, approved, decided, executed, otherVars>>

\* join_all has returned: phase 3, and send_message up to the loop head
\* (session.rs:241-250).
Collect ==
    /\ pc = "exec"
    /\ \A i \in DOMAIN outputs : outputs[i] # "pending"
    /\ LET results == Phase3(immediate_results, prepared, outputs) IN
       /\ tool_results' = results
       /\ events' = events \o Phase3Events(prepared)
       /\ IF results = <<>>
            THEN /\ pc' = "idle"
                 /\ result' = "Ok"
                 /\ UNCHANGED messages
            ELSE /\ messages' = Append(messages, Message("user", Content_blocks(results)))
                 /\ pc' = "loop_head"
                 /\ UNCHANGED result
    /\ UNCHANGED <<rollback_len, cancel, content, state, es, stream_result, bi,
                   immediate_results, prepared, outputs, requests, iter, starts, pre,
                   cancelAt, headCancelled, consulted, approved, decided, executed, otherVars>>

\* session_loop handles SessionCmd::Clear between two turns (tui/mod.rs:410-412).
Clear ==
    /\ pc = "idle"
    /\ messages' = clear(messages)
    /\ result' = "none"
    /\ NoPass
    /\ UNCHANGED <<pc, rollback_len, cancel, state, es, stream_result, requests, iter,
                   starts, pre, cancelAt, headCancelled, otherVars>>

Next ==
    \/ SendMessage
    \/ LoopHead
    \/ SseMessage
    \/ SseStreamEnded
    \/ SseError
    \/ SelectCancelled
    \/ Cancel
    \/ PermissionCheck
    \/ JoinAll
    \/ ToolCompletes
    \/ Collect
    \/ Clear

Spec == Init /\ [][Next]_vars


---------------------------------------------------------------------------
(* Properties of the session *)

\* send_message has returned and nothing has happened since.
Returned == pc = "idle" /\ result # "none"

\* execute_tool_calls has returned for the response `content`.
PassReturned == content # <<>> /\ pc \in {"loop_head", "idle"}

StreamErrors == {"RequestTooLarge", "StreamError", "BadRequest", "Cancelled"}

BlocksOf(m) == m.content.blocks

\* How many times x occurs in the sequence s.
Count(x, s) == Cardinality({i \in DOMAIN s : s[i] = x})

\* C1: when stream_message returns an error, in whichever iteration of the
\* loop, send_message returns that error and the conversation is exactly
\* the one that existed before the call.
C1_ApiErrorRollsBack ==
    (Returned /\ stream_result \in StreamErrors)
        => (result = stream_result /\ messages = pre /\ Len(messages) = rollback_len)

\* C1 witness: a stream error in the second iteration, after the first one
\* appended an assistant message and a tool-result message.
C1_Witness ==
    /\ Returned
    /\ result = "StreamError"
    /\ iter = 2
    /\ messages = pre

\* Every ToolUse block of the conversation is answered by exactly one
\* ToolResult block, and that one is in the next message, a user message.
ToolUsePaired(msgs) ==
    \A i \in DOMAIN msgs : \A k \in DOMAIN BlocksOf(msgs[i]) :
        LET b == BlocksOf(msgs[i])[k] IN
        b.type = "tool_use" =>
            /\ i < Len(msgs)
            /\ msgs[i + 1].role = "user"
            /\ Count(b.id, ToolResultIds(BlocksOf(msgs[i + 1]))) = 1
            /\ \A j \in DOMAIN msgs :
                 j # i + 1 => Count(b.id, ToolResultIds(BlocksOf(msgs[j]))) = 0

\* C2: whenever send_message issues an API request or returns, every ToolUse
\* block stored in the conversation is followed by exactly one ToolResult
\* block with its id, whatever the stop reason of its assistant message.
C2_EveryToolUseAnswered ==
    (pc = "stream" \/ Returned) => ToolUsePaired(messages)

\* No two consecutive messages after the bootstrap have the same role.
RolesAlternate(msgs) ==
    \A i \in bootstrap_len .. Len(msgs) - 1 : msgs[i].role # msgs[i + 1].role

\* C3: the messages sent in every API request alternate between the user
\* and the assistant role.
C3_RequestsAlternate ==
    pc = "stream" => RolesAlternate(messages)

\* C4: when the head of the loop finds the token cancelled, send_message
\* ends with the Cancelled error and the conversation rolled back.
C4_CancelAtHeadRollsBack ==
    (Returned /\ headCancelled)
        => (result = "Cancelled" /\ Len(messages) = rollback_len)

\* C5 as stated: a cancel signalled while stream_message waits for events
\* closes the connection and ends send_message with Cancelled, rolled back,
\* under every interleaving of the signal with event arrival.
C5_CancelInStreamAlwaysCancels ==
    (Returned /\ cancelAt = "stream")
        => /\ es = "closed"
           /\ stream_result = "Cancelled"
           /\ result = "Cancelled"
           /\ Len(messages) = rollback_len

\* C5 as amended: after a cancel signalled while stream_message waits, the
\* cancel branch of the select closes the connection and send_message
\* returns Cancelled with the conversation rolled back; the only other
\* outcomes are those of an event that was ready at the same time: a stream
\* error (rolled back as well) or a stream that completed with Ok.
C5_CancelBranchRollsBack ==
    (Returned /\ cancelAt = "stream")
        => /\ es = "closed"
           /\ \/ stream_result = "Cancelled" /\ result = "Cancelled" /\ messages = pre
              \/ stream_result \in {"StreamError", "BadRequest"}
                    /\ result = stream_result /\ messages = pre
              \/ stream_result = "Ok" /\ result = "Ok"
           /\ (stream_result = "Cancelled" => cancel)

\* C5 witness: the cancel branch taken in the second iteration of a call.
C5_Witness ==
    /\ Returned
    /\ cancelAt = "stream"
    /\ result = "Cancelled"
    /\ iter = 2
    /\ messages = pre

C7_ResultsInRequestOrder ==
    PassReturned => ToolResultIds(tool_results) = ToolUseIds(content)

\* The ToolUse blocks of the response that to_permission_tool does not map.
Unmapped ==
    {content[k].id : k \in {j \in DOMAIN content :
        content[j].type = "tool_use" /\ to_permission_tool(content[j].name) = "None"}}

\* C8: a tool runs only for a block that was mapped and that the policy
\* allowed earlier in the pass; an unmapped block is denied without the
\* policy being consulted; every unmapped or denied block gets the error
\* result "Permission denied by user." and never runs; and every decision
\* of the pass is taken before any tool starts.
C8_OnlyPermittedToolsRun ==
    /\ executed \subseteq approved
    /\ approved \subseteq consulted
    /\ consulted \cap Unmapped = {}
    /\ executed # {} => decided = Range(ToolUseIds(content))
    /\ pc \in {"perm", "exec"} =>
        \A id \in decided \ approved :
            Count(ToolResult(id, "Permission denied by user.", TRUE), immediate_results) = 1
    /\ PassReturned =>
        \A id \in decided \ approved :
            /\ id \notin executed
            /\ Count(ToolResult(id, "Permission denied by user.", TRUE), tool_results) = 1
            /\ Count(id, ToolResultIds(tool_results)) = 1

\* C8 witness: a pass in which one call ran, one was denied by the policy
\* and one could not be mapped.
C8_Witness ==
    /\ PassReturned
    /\ executed # {}
    /\ consulted \ approved # {}
    /\ Unmapped # {}


\* C13: a response with stop reason EndTurn or MaxTokens ends the call with
\* Ok right after its assistant message is appended; the tool pass is
\* entered only after a response with stop reason ToolUse; and a further
\* request of the same call is issued only from the loop head that follows a
\* pass which produced at least one tool result.
C13_OnlyToolUseContinues ==
    [][/\ (pc = "stream" /\ pc' # "stream" /\ stream_result' = "Ok") =>
            /\ messages' = Append(messages, Message("assistant", Content_blocks(state.blocks)))
            /\ IF state.stop_reason \in {"EndTurn", "MaxTokens"}
                 THEN pc' = "idle" /\ result' = "Ok"
                 ELSE pc' = "perm" /\ content' = state.blocks
       /\ (pc' = "perm" /\ pc # "perm") => (pc = "stream" /\ state.stop_reason = "ToolUse")
       /\ (pc' = "exec" /\ pc # "exec") => pc = "perm"
       /\ (pc' = "loop_head" /\ pc # "loop_head") =>
            \/ pc = "idle" /\ iter' = 0
            \/ pc = "exec" /\ tool_results' # <<>>
       /\ (pc' = "stream" /\ pc # "stream") =>
            /\ pc = "loop_head"
            /\ iter >= 1 =>
                 /\ tool_results # <<>>
                 /\ messages[Len(messages)] = Message("user", Content_blocks(tool_results))
                 /\ messages[Len(messages) - 1] = Message("assistant", Content_blocks(content))
      ]_vars

\* C13 witness: a call whose second request was answered with a stop reason
\* other than ToolUse and which returned Ok with that assistant message last.
C13_Witness ==
    /\ Returned
    /\ result = "Ok"
    /\ stream_result = "Ok"
    /\ iter = 2
    /\ ~headCancelled
    /\ messages[Len(messages)].role = "assistant"
    /\ Len(messages) = rollback_len + 4

\* C14: at every moment the conversation has at least the K bootstrap
\* messages and its first K messages are the ones built at construction;
\* and clear(), after any sequence of calls, leaves exactly those K.
C14_ClearRestoresBootstrap ==
    /\ [](/\ Len(messages) >= bootstrap_len
          /\ SubSeq(messages, 1, bootstrap_len) = bootstrap_messages
          /\ rollback_len = 0 \/ rollback_len >= bootstrap_len)
    /\ [][(pc = "idle" /\ pc' = "idle" /\ vars' # vars) => messages' = bootstrap_messages]_vars

\* C14 witness: the conversation just cleared after a call whose response
\* had been appended.
C14_Witness ==
    /\ pc = "idle"
    /\ result = "none"
    /\ stream_result = "Ok"
    /\ requests >= 1
    /\ messages = bootstrap_messages

\* The positions in the event log of one kind of call for one block.
Pos(kind, id) == {i \in DOMAIN events : events[i] = Ev(kind, id)}

\* The ids of the on_tool_use_start calls of a log, in order.
RECURSIVE StartIds(_)
StartIds(evs) ==
    IF evs = <<>> THEN <<>>
    ELSE (IF Head(evs).event = "on_tool_use_start" THEN <<Head(evs).id>> ELSE <<>>)
         \o StartIds(Tail(evs))

\* C15: within one pass on_tool_use_start is emitted once per ToolUse block,
\* in block order; on_tool_executing of a call, when emitted, precedes that
\* call's on_tool_result and on_tool_use_end; and every on_tool_use_start is
\* followed by exactly one on_tool_use_end of the same call.
C15_ToolEventOrder ==
    LET ids == ToolUseIds(content) IN
    /\ Len(StartIds(events)) <= Len(ids)
    /\ StartIds(events) = SubSeq(ids, 1, Len(StartIds(events)))
    /\ \A k \in DOMAIN events : events[k].id \in Range(ids)
    /\ \A id \in Range(ids) :
         /\ Cardinality(Pos("on_tool_executing", id)) <= 1
         /\ Cardinality(Pos("on_tool_use_end", id)) <= 1
         /\ \A i \in Pos("on_tool_executing", id) :
              /\ \E j \in Pos("on_tool_use_start", id) : j < i
              /\ \A j \in Pos("on_tool_result", id) \cup Pos("on_tool_use_end", id) : i < j
         /\ \A i \in Pos("on_tool_result", id) :
              \E j \in Pos("on_tool_use_end", id) : i < j
         /\ \A i \in Pos("on_tool_use_end", id) :
              \E j \in Pos("on_tool_use_start", id) : j < i
    /\ PassReturned =>
         /\ StartIds(events) = ids
         /\ \A id \in Range(ids) :
              /\ Cardinality(Pos("on_tool_use_start", id)) = 1
              /\ Cardinality(Pos("on_tool_use_end", id)) = 1

\* C15 witness: a pass over a denied call and two calls that ran.
C15_Witness ==
    /\ PassReturned
    /\ Len(ToolUseIds(content)) = 3
    /\ Cardinality(executed) = 2
    /\ consulted \ approved # {}
    /\ Len(events) = 10

\* The calls of the pass that failed: denied or unmapped ones, and those
\* whose tool returned an error output.
Failed ==
    (decided \ approved)
    \cup {prepared[i].id : i \in {j \in DOMAIN prepared : outputs[j] = "error"}}

---------------------------------------------------------------------------
(* Permission engine (permission.rs) and settings merge (config.rs).       *)
(* A string is a sequence of chunks: the characters ( ) : * / and space    *)
(* are chunks of their own, and any other chunk is a run of characters     *)
(* that contains none of them; no chunk used here is the concatenation of  *)
(* other chunks, so two strings are equal exactly when their sequences are.*)

MaxRules == 2       \* rules in the two layers together

\* str::find and str::rfind of one character: its position, or 0.
find(s, c) ==
    IF \E i \in DOMAIN s : s[i] = c
      THEN CHOOSE i \in DOMAIN s : s[i] = c /\ \A j \in 1 .. i - 1 : s[j] # c
      ELSE 0
rfind(s, c) ==
    IF \E i \in DOMAIN s : s[i] = c
      THEN CHOOSE i \in DOMAIN s : s[i] = c /\ \A j \in i + 1 .. Len(s) : s[j] # c
      ELSE 0

starts_with(s, prefix) ==
    Len(prefix) <= Len(s) /\ SubSeq(s, 1, Len(prefix)) = prefix

\* parse_rule: the tool name and the pattern of `ToolName(pattern)`.
parse_rule(rule) ==
    LET open == find(rule, "(")
        close == rfind(rule, ")")
    IN  IF open = 0 \/ close = 0 \/ close <= open
          THEN [some |-> FALSE, tool_name |-> <<>>, pattern |-> <<>>]
          ELSE [some |-> TRUE,
                tool_name |-> SubSeq(rule, 1, open - 1),
                pattern |-> SubSeq(rule, open + 1, close - 1)]

\* A prefix pattern that accepts every value beginning with the prefix.
pattern_matches_anyExtension(val, pat) ==
    IF pat = <<"*">> THEN TRUE
    ELSE IF Len(pat) >= 2 /\ SubSeq(pat, Len(pat) - 1, Len(pat)) = <<":", "*">>
      THEN starts_with(val, SubSeq(pat, 1, Len(pat) - 2))
      ELSE val = pat

\* pattern_matches
pattern_matches(value, pattern) ==
    IF pattern = <<"*">> THEN TRUE
    ELSE IF Len(pattern) >= 2 /\ SubSeq(pattern, Len(pattern) - 1, Len(pattern)) = <<":", "*">>
      THEN LET prefix == SubSeq(pattern, 1, Len(pattern) - 2) IN
           \/ value = prefix
           \/ /\ starts_with(value, prefix)
              /\ Len(value) > Len(prefix)
              /\ value[Len(prefix) + 1] = " "
      ELSE value = pattern

\* rule_matches.  An invocation is [class, arg]: arg is the command of Bash,
\* the displayed path of Read, Write and Edit, and empty otherwise.
rule_matches(rule, t) ==
    LET r == parse_rule(rule) IN
    IF ~r.some THEN FALSE
    ELSE CASE r.tool_name = <<"Bash">>  /\ t.class = "Bash"  -> pattern_matches(t.arg, r.pattern)
           [] r.tool_name = <<"Read">>  /\ t.class = "Read"  -> pattern_matches(t.arg, r.pattern)
           [] r.tool_name = <<"Write">> /\ t.class = "Write" -> pattern_matches(t.arg, r.pattern)
           [] r.tool_name = <<"Edit">>  /\ t.class = "Edit"  -> pattern_matches(t.arg, r.pattern)
           [] OTHER -> FALSE

\* Path::is_absolute
is_absolute(path) == path # <<>> /\ path[1] = "/"

\* Path::join of a relative path.
join(base, path) == base \o <<"/">> \o path

\* resolve_path
resolve_path(path, project_dir) ==
    IF is_absolute(path) THEN path ELSE join(project_dir, path)

\* Path::components: the root if the path is absolute, then the names
\* between separators; empty names and `.` after the start are dropped.
RECURSIVE Names(_, _, _)
Names(path, cur, first) ==
    LET keep == cur # <<>> /\ (cur # <<".">> \/ first) IN
    IF path = <<>> THEN (IF keep THEN <<cur>> ELSE <<>>)
    ELSE IF Head(path) = "/"
      THEN (IF keep THEN <<cur>> ELSE <<>>) \o Names(Tail(path), <<>>, first /\ ~keep)
      ELSE Names(Tail(path), Append(cur, Head(path)), first)
components(path) ==
    IF is_absolute(path) THEN <<"RootDir">> \o Names(Tail(path), <<>>, FALSE)
    ELSE Names(path, <<>>, TRUE)

\* A prefix test on the characters of the two paths.
path_starts_with_chars(path, base) == starts_with(path, base)

\* Path::starts_with: whole components.
path_starts_with(path, base) == starts_with(components(path), components(base))

\* A merge that forgets the deny rules of the later layer.
merge_dropsDeny(self, other) ==
    [allow |-> self.allow \o other.allow,
     deny |-> self.deny,
     additional_directories |-> self.additional_directories \o other.additional_directories]

\* A merge that puts the entries of the later layer first.
merge_otherFirst(self, other) ==
    [allow |-> other.allow \o self.allow,
     deny |-> other.deny \o self.deny,
     additional_directories |-> other.additional_directories \o self.additional_directories]

\* Mergeable::merge for PermissionConfig (config.rs:88-96)
merge(self, other) ==
    [allow |-> self.allow \o other.allow,
     deny |-> self.deny \o other.deny,
     additional_directories |-> self.additional_directories \o other.additional_directories]

\* PermissionConfig::check
check(cfg, t, project_dir) ==
    IF \E i \in DOMAIN cfg.deny : rule_matches(cfg.deny[i], t) THEN "Some(false)"
    ELSE IF \E i \in DOMAIN cfg.allow : rule_matches(cfg.allow[i], t) THEN "Some(true)"
    ELSE IF t.class \in {"Git", "Glob", "Grep", "Search"} THEN "Some(true)"
    ELSE IF t.class \in {"Read", "Write", "Edit"}
      THEN LET resolved == resolve_path(t.arg, project_dir) IN
           IF path_starts_with(resolved, project_dir) THEN "Some(true)"
           ELSE IF \E i \in DOMAIN cfg.additional_directories :
                      path_starts_with(resolved, cfg.additional_directories[i])
             THEN "Some(true)"
             ELSE "None"
      ELSE "None"

\* ---- the inputs of SpecPerm

Rule(name, pattern) == <<name, "(">> \o pattern \o <<")">>

Rules ==
    {Rule(c, <<"*">>) : c \in {"Bash", "Read", "Write", "Edit", "Git", "Glob", "Grep", "Search"}}
    \cup {Rule("Bash", <<"rm", ":", "*">>),
          Rule("Read", <<"/", "etc", "/", "passwd">>),
          <<"Bash">>}

Commands == {<<"rm">>, <<"rm", " ", "-rf">>, <<"rm", "2">>, <<"ls">>}
Paths == {<<"/", "project", "/", "a">>, <<"a">>, <<"/", "etc", "/", "passwd">>,
          <<"/", "project", "2", "/", "a">>, <<"/", "extra", "/", "a">>}

Tools ==
    {[class |-> "Bash", arg |-> c] : c \in Commands}
    \cup {[class |-> "Read", arg |-> q] : q \in Paths}
    \cup {[class |-> c, arg |-> q] : c \in {"Write", "Edit"},
                                    q \in {<<"/", "project", "/", "a">>, <<"/", "etc", "/", "passwd">>}}
    \cup {[class |-> c, arg |-> <<>>] : c \in {"Git", "Glob", "Grep", "Search"}}

project_dir == <<"/", "project">>
DirLists == {<<>>, << <<"/", "extra">> >>}

Slots == {"A.allow", "A.deny", "B.allow", "B.deny"}

\* The rules of a placement that went to one slot, in order.
RECURSIVE RulesOf(_, _)
RulesOf(placement, slot) ==
    IF placement = <<>> THEN <<>>
    ELSE (IF Head(placement).slot = slot THEN <<Head(placement).rule>> ELSE <<>>)
         \o RulesOf(Tail(placement), slot)

Placements == UNION {[1 .. n -> [rule : Rules, slot : Slots]] : n \in 0 .. MaxRules}

InitPerm ==
    /\ \E pl \in Placements, dirs \in DirLists :
         /\ layerA = [allow |-> RulesOf(pl, "A.allow"), deny |-> RulesOf(pl, "A.deny"),
                      additional_directories |-> dirs]
         /\ layerB = [allow |-> RulesOf(pl, "B.allow"), deny |-> RulesOf(pl, "B.deny"),
                      additional_directories |-> <<>>]
    /\ tool \in Tools
    /\ decisionAB = "pending"
    /\ decisionBA = "pending"
    /\ messages = bootstrap_messages
    /\ rollback_len = 0
    /\ cancel = FALSE
    /\ pc = "idle"
    /\ result = "none"
    /\ content = <<>>
    /\ tool_results = <<>>
    /\ state = StreamState_new
    /\ es = "none"
    /\ stream_result = "none"
    /\ bi = 0
    /\ immediate_results = <<>>
    /\ prepared = <<>>
    /\ outputs = <<>>
    /\ requests = 0
    /\ iter = 0
    /\ starts = 0
    /\ pre = <<>>
    /\ cancelAt = "none"
    /\ headCancelled = FALSE
    /\ consulted = {}
    /\ approved = {}
    /\ decided = {}
    /\ executed = {}
    /\ events = <<>>
    /\ MoreIdle

\* PermissionConfig::check on the two layers merged in either order, as
\* load_settings_from_paths merges them (config.rs:132-138).
Check ==
    /\ decisionAB = "pending"
    /\ decisionAB' = check(merge(layerA, layerB), tool, project_dir)
    /\ decisionBA' = check(merge(layerB, layerA), tool, project_dir)
    /\ UNCHANGED <<layerA, layerB, tool, sessionVars, moreVars>>

NextPerm == Check

SpecPerm == InitPerm /\ [][NextPerm]_vars

---------------------------------------------------------------------------
(* Properties of the permission engine *)

DenyMatches(layer) == \E i \in DOMAIN layer.deny : rule_matches(layer.deny[i], tool)
AllowMatches(layer) == \E i \in DOMAIN layer.allow : rule_matches(layer.allow[i], tool)

\* C9: on merge(A, B) check returns false whenever a deny rule of either
\* layer matches, whatever allow rule or default would allow the invocation;
\* it returns true when no deny rule matches and an allow rule of either
\* layer matches; and merge(B, A) gives the same decision.
C9_DenyWinsAcrossLayers ==
    decisionAB # "pending" =>
        /\ (DenyMatches(layerA) \/ DenyMatches(layerB)) => decisionAB = "Some(false)"
        /\ (~DenyMatches(layerA) /\ ~DenyMatches(layerB)
                /\ (AllowMatches(layerA) \/ AllowMatches(layerB))) => decisionAB = "Some(true)"
        /\ decisionAB = decisionBA

\* C9 witness: a deny rule of the later layer beats a matching allow rule
\* of the earlier one.
C9_Witness ==
    /\ decisionAB = "Some(false)"
    /\ DenyMatches(layerB)
    /\ ~DenyMatches(layerA)
    /\ AllowMatches(layerA)

\* C10: with the deny rule T(*) in the configuration, check returns false
\* for every invocation of class T, for each of the eight classes.
C10_DenyStarDeniesClass ==
    decisionAB # "pending" =>
        \A c \in {"Bash", "Read", "Write", "Edit", "Git", "Glob", "Grep", "Search"} :
            (tool.class = c
                /\ \E i \in DOMAIN merge(layerA, layerB).deny :
                      merge(layerA, layerB).deny[i] = Rule(c, <<"*">>))
            => decisionAB = "Some(false)"

\* No rule of the merged configuration matches the invocation.
NoRuleMatches ==
    ~DenyMatches(layerA) /\ ~DenyMatches(layerB) /\ ~AllowMatches(layerA) /\ ~AllowMatches(layerB)

\* The text of path is dir itself or dir followed by a separator and more.
Under(path, dir) ==
    \/ path = dir
    \/ starts_with(path, dir \o <<"/">>)

\* The path of the invocation as text, made absolute against project_dir.
Resolved == IF tool.arg[1] = "/" THEN tool.arg ELSE project_dir \o <<"/">> \o tool.arg

\* C11: when no allow or deny rule matches, check returns true for a Read,
\* Write or Edit exactly when its path, joined to project_dir if relative,
\* lies under project_dir or under an additional directory by whole
\* components, and returns None otherwise; /project2/a is not in /project.
C11_FileInsideProject ==
    (decisionAB # "pending" /\ NoRuleMatches /\ tool.class \in {"Read", "Write", "Edit"}) =>
        LET dirs == merge(layerA, layerB).additional_directories
            inside == \/ Under(Resolved, project_dir)
                      \/ \E i \in DOMAIN dirs : Under(Resolved, dirs[i])
        IN  /\ inside => decisionAB = "Some(true)"
            /\ ~inside => decisionAB = "None"

\* C11 witness: the sibling /project2/a is left unresolved although its
\* text begins with /project.
C11_Witness ==
    /\ decisionAB = "None"
    /\ NoRuleMatches
    /\ tool = [class |-> "Read", arg |-> <<"/", "project", "2", "/", "a">>]

---------------------------------------------------------------------------
(* pattern_matches on its own (permission.rs:159-174), over every value    *)
(* and pattern of bounded length; a string is a sequence of characters.    *)

MaxLen == 3         \* characters of a value, and of a pattern or its prefix

\* The session at rest and no check made: the part of the state that the
\* specifications of single functions leave alone.
SessionIdle ==
    /\ messages = bootstrap_messages
    /\ rollback_len = 0
    /\ cancel = FALSE
    /\ pc = "idle"
    /\ result = "none"
    /\ content = <<>>
    /\ tool_results = <<>>
    /\ state = StreamState_new
    /\ es = "none"
    /\ stream_result = "none"
    /\ bi = 0
    /\ immediate_results = <<>>
    /\ prepared = <<>>
    /\ outputs = <<>>
    /\ requests = 0
    /\ iter = 0
    /\ starts = 0
    /\ pre = <<>>
    /\ cancelAt = "none"
    /\ headCancelled = FALSE
    /\ consulted = {}
    /\ approved = {}
    /\ decided = {}
    /\ executed = {}
    /\ events = <<>>

\* No check made.
PermIdle ==
    /\ layerA = <<>>
    /\ layerB = <<>>
    /\ tool = <<>>
    /\ decisionAB = "pending"
    /\ decisionBA = "pending"

\* Everything at rest but the state of one operation.
CoreIdle == SessionIdle /\ PermIdle
IdleButRq == CoreIdle
IdleButWalk == CoreIdle
IdleButMerge == CoreIdle
IdleButEdit == CoreIdle
IdleButSearch == CoreIdle
IdleButPathCheck == CoreIdle
IdleButSnippet == CoreIdle
IdleButIndex == CoreIdle
IdleButTui == CoreIdle

Chars == {"a", " ", ":", "*"}
Strings == UNION {[1 .. n -> Chars] : n \in 0 .. MaxLen}
Patterns == Strings \cup {p \o <<":", "*">> : p \in Strings}

InitPattern ==
    /\ pmatch \in [arg_value : Strings, arg_pattern : Patterns, matched : {"pending"}]
    /\ CoreIdle

\* One call of pattern_matches.
Match ==
    /\ matched = "pending"
    /\ pmatch' = [pmatch EXCEPT !.matched = IF pattern_matches(arg_value, arg_pattern)
                                               THEN "true" ELSE "false"]
    /\ UNCHANGED coreVars

NextPattern == Match

SpecPattern == InitPattern /\ [][NextPattern]_vars

\* The pattern has the form P:* and Prefix is its P.
IsPrefixPattern ==
    /\ Len(arg_pattern) >= 2
    /\ arg_pattern[Len(arg_pattern) - 1] = ":"
    /\ arg_pattern[Len(arg_pattern)] = "*"
Prefix == SubSeq(arg_pattern, 1, Len(arg_pattern) - 2)

\* The value is P followed by a space and anything.
PThenSpace ==
    /\ Len(arg_value) > Len(Prefix)
    /\ \A i \in 1 .. Len(Prefix) : arg_value[i] = Prefix[i]
    /\ arg_value[Len(Prefix) + 1] = " "

\* The value is P followed by a character other than a space and anything.
PThenOther ==
    /\ Len(arg_value) > Len(Prefix)
    /\ \A i \in 1 .. Len(Prefix) : arg_value[i] = Prefix[i]
    /\ arg_value[Len(Prefix) + 1] # " "

\* The value is one or more characters followed by P.
SomethingThenP ==
    /\ Len(arg_value) > Len(Prefix)
    /\ \A i \in 1 .. Len(Prefix) : arg_value[Len(arg_value) - Len(Prefix) + i] = Prefix[i]

\* C12 as stated: P:* matches V exactly when V is P or P, a space and
\* anything, never a V that extends P otherwise (P2) and never a V that has
\* characters before P (xP); * matches every value; any other pattern
\* matches only the identical string.
C12_PrefixPatternAsStated ==
    matched # "pending" =>
        /\ arg_pattern = <<"*">> => matched = "true"
        /\ IsPrefixPattern =>
             /\ matched = "true" <=> (arg_value = Prefix \/ PThenSpace)
             /\ PThenOther => matched = "false"
             /\ SomethingThenP => matched = "false"
        /\ (arg_pattern # <<"*">> /\ ~IsPrefixPattern) => (matched = "true" <=> arg_value = arg_pattern)

\* C12 as amended: as stated, except that a V that has characters before P
\* is rejected only when it does not also begin with P and a space.
C12_PrefixPattern ==
    matched # "pending" =>
        /\ arg_pattern = <<"*">> => matched = "true"
        /\ IsPrefixPattern =>
             /\ matched = "true" <=> (arg_value = Prefix \/ PThenSpace)
             /\ PThenOther => matched = "false"
             /\ (SomethingThenP /\ ~PThenSpace) => matched = "false"
        /\ (arg_pattern # <<"*">> /\ ~IsPrefixPattern) => (matched = "true" <=> arg_value = arg_pattern)

\* C12 witness: a:* matches `a a`, which begins with the prefix and a space
\* and also has characters before the prefix.
C12_Witness ==
    /\ matched = "true"
    /\ arg_pattern = <<"a", ":", "*">>
    /\ arg_value = <<"a", " ", "a">>
    /\ SomethingThenP

---------------------------------------------------------------------------
(* The stream decoder on its own: the select loop of stream_message        *)
(* (api.rs:386-431) fed with every sequence of a bounded number of events, *)
(* with text and JSON chunks, token counts, missing fields and data that   *)
(* is not JSON.                                                            *)

MaxEvents == 5      \* events the server sends on one stream

TextChunks == {<<"a">>, <<"b">>}
JsonChunks == {<<"{">>, <<"}">>, <<"{", "}">>, <<"1">>, <<"{", "k", ":">>,
               <<"1", "}">>, <<"{", "k", ":", "1", "}">>}

DecoderEvents ==
    {content_block_start("tool_use", starts + 1, "bash")}
    \cup {content_block_start(t, starts + 1, "") : t \in BlockTypes \ {"tool_use"}}
    \cup {content_block_delta("text_delta", c) : c \in TextChunks}
    \cup {content_block_delta("input_json_delta", c) : c \in JsonChunks}
    \cup {[content_block_delta("text_delta", <<>>) EXCEPT !.delta.has_chunk = FALSE],
          [content_block_delta("text_delta", <<>>) EXCEPT !.malformed = TRUE]}
    \cup {content_block_stop, message_stop, ping, unknown_event, message_start(3),
          message_delta("tool_use", 7),
          [message_delta("", -1) EXCEPT !.has_reason = FALSE]}
    \cup {error("overloaded"),
          [error("") EXCEPT !.has_message = FALSE],
          [error("") EXCEPT !.malformed = TRUE]}

\* EventSource::new and StreamState::new (api.rs:386-388).
NewEventSource ==
    /\ pc = "idle"
    /\ es = "none"
    /\ es' = "open"
    /\ state' = StreamState_new
    /\ UNCHANGED <<messages, rollback_len, cancel, pc, result, content, tool_results,
                   stream_result, bi, immediate_results, prepared, outputs, requests, iter,
                   starts, pre, cancelAt, headCancelled, consulted, approved, decided,
                   executed, events, permVars, moreVars>>

\* What the server has sent of the block it opened last.
Opened(ev) ==
    CASE ev.event = "content_block_start" /\ ~ev.malformed ->
            [type |-> ev.type, id |-> ev.id, name |-> ev.name, at |-> Len(sink),
             nblocks |-> Len(state.blocks), deltas |-> <<>>, stopped |-> FALSE]
      [] ev.event = "content_block_delta" /\ ~ev.malformed /\ opened.type # "none" ->
            IF opened.stopped THEN opened ELSE [opened EXCEPT !.deltas = Append(@, ev.delta)]
      [] ev.event = "content_block_stop" /\ opened.type # "none" ->
            [opened EXCEPT !.stopped = TRUE]
      [] OTHER -> opened

\* One turn of the select loop whose event branch yields a message
\* (api.rs:397-404): the event is handled; when it completes the stream the
\* connection is closed and stream_message returns Ok, and when its data
\* does not parse stream_message returns the error.
Feed ==
    /\ pc = "idle"
    /\ es = "open"
    /\ fed < MaxEvents
    /\ \E ev \in DecoderEvents :
         LET r == handle_sse_event(state, ev) IN
         /\ dec' = [sink |-> sink \o r.emit, opened |-> Opened(ev), last |-> ev,
                    fed |-> fed + 1]
         /\ state' = r.state
         /\ es' = IF r.err \/ r.done THEN "closed" ELSE "open"
         /\ stream_result' = IF r.err THEN "StreamError" ELSE IF r.done THEN "Ok" ELSE stream_result
         /\ starts' = IF ev.event = "content_block_start" THEN starts + 1 ELSE starts
    /\ UNCHANGED <<messages, rollback_len, cancel, pc, result, content, tool_results,
                   bi, immediate_results, prepared, outputs, requests, iter,
                   pre, cancelAt, headCancelled, consulted, approved, decided,
                   executed, events, permVars>>

\* The event branch yields None or Err(StreamEnded) (api.rs:393, 405).
StreamEnded ==
    /\ pc = "idle"
    /\ es = "open"
    /\ es' = "closed"
    /\ stream_result' = "Ok"
    /\ UNCHANGED <<messages, rollback_len, cancel, pc, result, content, tool_results, state,
                   bi, immediate_results, prepared, outputs, requests, iter,
                   starts, pre, cancelAt, headCancelled, consulted, approved, decided,
                   executed, events, permVars, moreVars>>

\* The server sends an event on a stream that stream_message has left: the
\* event source is closed or dropped and nothing reads the event.
Dropped ==
    /\ pc = "idle"
    /\ es = "closed"
    /\ fed < MaxEvents
    /\ dec' = [dec EXCEPT !.fed = @ + 1]
    /\ UNCHANGED coreVars

NextDecoder ==
    \/ NewEventSource
    \/ Feed
    \/ StreamEnded
    \/ Dropped

\* The session at rest and a decoder that has handled nothing.
InitDecoder ==
    /\ CoreIdle
    /\ dec = [sink |-> <<>>, opened |-> [type |-> "none"],
              last |-> [event |-> "none", malformed |-> FALSE], fed |-> 0]

SpecDecoder == InitDecoder /\ [][NextDecoder]_vars

---------------------------------------------------------------------------
(* Properties of the decoder *)

RECURSIVE Concat(_)
Concat(chunks) == IF chunks = <<>> THEN <<>> ELSE Head(chunks) \o Concat(Tail(chunks))

\* The chunks of the deltas of one type that carried a chunk, in order.
RECURSIVE ChunksOf(_, _)
ChunksOf(deltas, type) ==
    IF deltas = <<>> THEN <<>>
    ELSE (IF Head(deltas).type = type /\ Head(deltas).has_chunk
            THEN <<Head(deltas).chunk>> ELSE <<>>)
         \o ChunksOf(Tail(deltas), type)

\* The decoder has just handled the content_block_stop of a block of that type.
JustStopped(type) ==
    /\ last.event = "content_block_stop"
    /\ opened.type = type
    /\ opened.stopped

\* C17: for the text_delta chunks received between the content_block_start
\* and the content_block_stop of a text block, on_text is called once per
\* chunk in arrival order, and the text of the resulting block is the
\* concatenation of the chunks in that order.
C17_TextChunksInOrder ==
    /\ (opened.type = "text" /\ es = "open") =>
         LET chunks == ChunksOf(opened.deltas, "text_delta") IN
         /\ SubSeq(sink, opened.at + 1, Len(sink)) = [i \in DOMAIN chunks |-> on_text(chunks[i])]
         /\ ~opened.stopped => state.current = [kind |-> "Text", text |-> Concat(chunks)]
    /\ JustStopped("text") =>
         LET chunks == ChunksOf(opened.deltas, "text_delta") IN
         /\ Len(state.blocks) = opened.nblocks + 1
         /\ state.blocks[Len(state.blocks)] = Text(Concat(chunks))
         /\ SubSeq(sink, opened.at + 1, Len(sink)) = [i \in DOMAIN chunks |-> on_text(chunks[i])]

\* C17 witness: a text block that received the chunks a and b in that order.
C17_Witness ==
    /\ JustStopped("text")
    /\ state.blocks = <<Text(<<"a", "b">>)>>
    /\ sink = <<on_text(<<"a">>), on_text(<<"b">>)>>

\* The JSON values of at most three levels, and the text of a value.
JsonValues0 == {JsonNumber, JsonString, EmptyObject}
JsonValues1 == JsonValues0 \cup {JsonObject(<<v>>) : v \in JsonValues0}
JsonValues2 == JsonValues1 \cup {JsonObject(<<v>>) : v \in JsonValues1}
JsonValues == JsonValues2 \cup {JsonObject(<<v>>) : v \in JsonValues2}
RECURSIVE JsonText(_)
JsonText(v) ==
    IF v = JsonNumber THEN <<"1">>
    ELSE IF v = JsonString THEN <<"k">>
    ELSE IF v.members = <<>> THEN <<"{", "}">>
    ELSE <<"{", "k", ":">> \o JsonText(v.members[1]) \o <<"}">>

\* The value a JSON text denotes, the empty object when it denotes none.
ValueOf(text) ==
    IF \E v \in JsonValues : JsonText(v) = text
      THEN CHOOSE v \in JsonValues : JsonText(v) = text
      ELSE EmptyObject

\* C18: the ToolUse block pushed at content_block_stop carries the id and
\* name of its content_block_start and, as input, the value of the JSON text
\* that the partial_json chunks of the block form when concatenated in
\* arrival order, however the text was split; the empty object when that
\* text, empty or not, is not valid JSON.
C18_ToolInputFromJsonChunks ==
    JustStopped("tool_use") =>
        LET json == Concat(ChunksOf(opened.deltas, "input_json_delta")) IN
        /\ Len(state.blocks) = opened.nblocks + 1
        /\ state.blocks[Len(state.blocks)] = ToolUse(opened.id, opened.name, ValueOf(json))

\* C18 witness: the text {k:1} arrived as {k: and 1 and }.
C18_Witness ==
    /\ JustStopped("tool_use")
    /\ ChunksOf(opened.deltas, "input_json_delta") = << <<"{", "k", ":">>, <<"1">>, <<"}">> >>
    /\ state.blocks = <<ToolUse(1, "bash", JsonObject(<<JsonNumber>>))>>

\* The on_error calls of the sink.
OnErrorCalls == {i \in DOMAIN sink : sink[i].call = "on_error"}

\* C19: once message_stop or an error event has been handled the stream is
\* complete: the connection is closed, stream_message returns Ok, and no
\* event sent later changes blocks, usage or stop reason or reaches the
\* sink; for an error event on_error has been called once, with the message
\* of the event or `Unknown error` when it has none.
C19_StreamCompleteAfterStopOrError ==
    /\ []((last.event \in {"message_stop", "error"} /\ ~last.malformed) =>
            /\ es = "closed"
            /\ stream_result = "Ok")
    /\ []((last.event = "error" /\ ~last.malformed) =>
            /\ Cardinality(OnErrorCalls) = 1
            /\ sink[Len(sink)] =
                 on_error(IF last.has_message THEN last.message ELSE "Unknown error"))
    /\ []((last.event # "error" \/ last.malformed) => OnErrorCalls = {})
    /\ [][es = "closed" => UNCHANGED <<state, sink, es, stream_result, last>>]_vars

\* C19 witness: an error event ended the stream after a text chunk, and the
\* server sent one more event.
C19_Witness ==
    /\ es = "closed"
    /\ last = error("overloaded")
    /\ sink = <<on_text(<<"a">>), on_error("overloaded")>>
    /\ fed = 4
    /\ state.blocks = <<>>

---------------------------------------------------------------------------
(* truncate_tool_results on its own (api.rs:257-302).  The content of a    *)
(* ToolResult is a sequence of bytes of UTF-8 text: x is a character of    *)
(* one byte, and L C are the lead and the continuation byte of a character *)
(* of two bytes.  MAX_TOOL_RESULT_SIZE, 500_000 in the source, is scaled.  *)

MAX_TOOL_RESULT_SIZE == 4
MaxExcess == 2      \* bytes of a content beyond MAX_TOOL_RESULT_SIZE

\* The UTF-8 texts of exactly n bytes.
RECURSIVE Utf8(_)
Utf8(n) ==
    IF n = 0 THEN {<<>>}
    ELSE {<<"x">> \o t : t \in Utf8(n - 1)}
         \cup (IF n >= 2 THEN {<<"L", "C">> \o t : t \in Utf8(n - 2)} ELSE {})
Contents == UNION {Utf8(n) : n \in 0 .. MAX_TOOL_RESULT_SIZE + MaxExcess}

\* str::is_char_boundary
is_char_boundary(s, index) ==
    \/ index = 0
    \/ index = Len(s)
    \/ index < Len(s) /\ s[index + 1] # "C"

\* The content of a truncated ToolResult: format!("{}... [truncated {} bytes]", ..).
\* The slice &content[..MAX_TOOL_RESULT_SIZE] panics when the offset is not
\* a character boundary.
truncate_content(c) ==
    IF Len(c) > MAX_TOOL_RESULT_SIZE
      THEN IF is_char_boundary(c, MAX_TOOL_RESULT_SIZE)
             THEN [panic |-> FALSE,
                   content |-> SubSeq(c, 1, MAX_TOOL_RESULT_SIZE)
                               \o <<"... [truncated ", ToString(Len(c) - MAX_TOOL_RESULT_SIZE),
                                    " bytes]">>]
             ELSE [panic |-> TRUE, content |-> c]
      ELSE [panic |-> FALSE, content |-> c]

\* The closure applied to each block.
truncate_block(block) ==
    IF block.type = "tool_result"
      THEN [block EXCEPT !.content = truncate_content(block.content).content]
      ELSE block

\* truncate_tool_results: the new messages, or a panic.
truncate_tool_results(msgs) ==
    IF \E i \in DOMAIN msgs : \E k \in DOMAIN msgs[i].content.blocks :
          /\ msgs[i].content.blocks[k].type = "tool_result"
          /\ truncate_content(msgs[i].content.blocks[k].content).panic
      THEN [status |-> "panic", messages |-> <<>>]
      ELSE [status |-> "returned",
            messages |-> [i \in DOMAIN msgs |->
                IF msgs[i].content.kind = "Blocks"
                  THEN Message(msgs[i].role,
                               Content_blocks([k \in DOMAIN msgs[i].content.blocks |->
                                                 truncate_block(msgs[i].content.blocks[k])]))
                  ELSE msgs[i]]]

\* The conversations passed in: the bootstrap, an assistant message with a
\* text and a tool call, and a user message with one or two tool results.
TrBlocks == {ToolResult(1, c, e) : c \in Contents, e \in BOOLEAN}
Conversations ==
    {bootstrap_messages
        \o <<Message("assistant", Content_blocks(<<Text(<<"x">>), ToolUse(1, "bash", EmptyObject)>>)),
             Message("user", Content_blocks(bs))>> :
     bs \in {<<b>> : b \in TrBlocks}
            \cup {<<b, ToolResult(2, <<"x", "x", "x", "x", "x", "x">>, FALSE)>> : b \in TrBlocks}}

InitTruncate ==
    /\ trunc \in [tr_messages : Conversations,
                   truncated_messages : {[status |-> "pending", messages |-> <<>>]}]
    /\ CoreIdle

\* stream_message calls truncate_tool_results(messages) (api.rs:352).
Truncate ==
    /\ truncated_messages = [status |-> "pending", messages |-> <<>>]
    /\ trunc' = [trunc EXCEPT !.truncated_messages = truncate_tool_results(tr_messages)]
    /\ UNCHANGED coreVars

NextTruncate == Truncate

SpecTruncate == InitTruncate /\ [][NextTruncate]_vars

\* The marker of a content of n bytes.
Marker(n) == <<"... [truncated ", ToString(n - MAX_TOOL_RESULT_SIZE), " bytes]">>

\* C20: every ToolResult content longer than T bytes is replaced by its
\* first T bytes followed by the marker `... [truncated N bytes]` with N the
\* original length less T; shorter contents and all other blocks and
\* messages are passed through unchanged; the messages passed in are not
\* modified.
C20_ToolResultsTruncated ==
    /\ truncated_messages.status # "pending" =>
         /\ truncated_messages.status = "returned"
         /\ Len(truncated_messages.messages) = Len(tr_messages)
         /\ \A i \in DOMAIN tr_messages :
              LET m == tr_messages[i]
                  t == truncated_messages.messages[i]
              IN  /\ t.role = m.role
                  /\ t.content.kind = m.content.kind
                  /\ Len(t.content.blocks) = Len(m.content.blocks)
                  /\ \A k \in DOMAIN m.content.blocks :
                       LET b == m.content.blocks[k] IN
                       IF b.type = "tool_result" /\ Len(b.content) > MAX_TOOL_RESULT_SIZE
                         THEN t.content.blocks[k] =
                                [b EXCEPT !.content =
                                    [j \in 1 .. MAX_TOOL_RESULT_SIZE |-> b.content[j]]
                                    \o Marker(Len(b.content))]
                         ELSE t.content.blocks[k] = b
    /\ tr_messages \in Conversations

\* The same for the calls that return: what C20 states holds whenever byte
\* offset T of every long content is a character boundary.
TruncatedWhenReturned ==
    truncated_messages.status = "panic" \/ C20_ToolResultsTruncated

---------------------------------------------------------------------------
(* send_message over the request-size check of stream_message              *)
(* (session.rs:165-253, api.rs:343-386).  A text is a sequence of bytes.   *)
(* serde_json::to_string is modelled as the bytes of the texts with one    *)
(* element for each piece of JSON syntax around them; MAX_REQUEST_SIZE,    *)
(* 4 * 1024 * 1024 in the source, is scaled to these lengths.              *)

MAX_REQUEST_SIZE == 61

\* Content::text(s), with the text.
Content_of(t) == [kind |-> "Text", blocks |-> <<>>, text |-> t]

\* The bootstrap messages, with a text each.
bootstrap_texts == <<Message("user", Content_of(<<"x">>)),
                     Message("assistant", Content_of(<<"x">>))>>

\* A JSON string.
to_string_str(t) == <<"\"">> \o t \o <<"\"">>

\* #[serde(tag = "type")] ContentBlock; is_error is skipped when it is None.
to_string_block(b) ==
    CASE b.type = "text" ->
            <<"{type:text,text:">> \o to_string_str(b.text) \o <<"}">>
      [] b.type = "tool_use" ->
            <<"{type:tool_use,id:", ToString(b.id), ",name:", b.name, ",input:{}", "}">>
      [] b.type = "tool_result" ->
            <<"{type:tool_result,tool_use_id:", ToString(b.tool_use_id), ",content:">>
            \o to_string_str(b.content)
            \o (IF b.is_error THEN <<",is_error:true">> ELSE <<>>)
            \o <<"}">>

RECURSIVE to_string_blocks(_)
to_string_blocks(bs) ==
    IF bs = <<>> THEN <<>>
    ELSE to_string_block(Head(bs))
         \o (IF Tail(bs) = <<>> THEN <<>> ELSE <<",">> \o to_string_blocks(Tail(bs)))

\* #[serde(untagged)] Content
to_string_content(c) ==
    IF c.kind = "Text" THEN to_string_str(c.text)
    ELSE <<"[">> \o to_string_blocks(c.blocks) \o <<"]">>

to_string_message(m) ==
    <<"{role:", m.role, ",content:">> \o to_string_content(m.content) \o <<"}">>

RECURSIVE to_string_messages(_)
to_string_messages(ms) ==
    IF ms = <<>> THEN <<>>
    ELSE to_string_message(Head(ms))
         \o (IF Tail(ms) = <<>> THEN <<>> ELSE <<",">> \o to_string_messages(Tail(ms)))

\* serde_json::to_string(&body) of the body built by stream_message.
body_json(msgs) ==
    <<"{max_tokens:16384,messages:[">> \o to_string_messages(msgs)
    \o <<"],model:", "claude-sonnet-4-5", ",stream:true,system:", "system_prompt",
         ",tools:", "tool_defs", "}">>

\* A size check that also refuses a body of exactly the limit.
too_large_atLimit(size) == size >= MAX_REQUEST_SIZE

\* body_size > MAX_REQUEST_SIZE
too_large(size) == size > MAX_REQUEST_SIZE

\* What the user types, and what a tool returns.
Inputs == Utf8(1) \cup Utf8(2)

InitRequest ==
    /\ rq = [messages |-> bootstrap_texts, rollback_len |-> 0, pc |-> "idle",
             result |-> "none", pre |-> <<>>, iter |-> 0, body_size |-> -1,
             issued |-> FALSE]
    /\ IdleButRq

\* send_message up to the loop (session.rs:165-191).
SendMessageSized ==
    /\ rq_pc \in {"idle", "returned"}
    /\ \E input \in Inputs :
         rq' = [messages |-> Append(rq_messages, Message("user", Content_of(input))),
                pre |-> rq_messages,
                rollback_len |-> Len(rq_messages),
                pc |-> "head",
                result |-> "none",
                iter |-> 0,
                body_size |-> -1,
                issued |-> FALSE]
    /\ UNCHANGED notRq

\* stream_message up to EventSource::new (api.rs:351-386), and the Err arm
\* of send_message when it fails (session.rs:211-217).
Preflight ==
    /\ rq_pc = "head"
    /\ LET t == truncate_tool_results(rq_messages) IN
       IF t.status = "panic"
         THEN rq' = [rq EXCEPT !.iter = @ + 1, !.pc = "panicked", !.issued = FALSE,
                               !.body_size = -1]
         ELSE LET size == Len(body_json(t.messages)) IN
              IF too_large(size)
                THEN rq' = [rq EXCEPT !.iter = @ + 1, !.body_size = size,
                                      !.messages = RollBack(rq_messages, rq_rollback_len),
                                      !.result = "RequestTooLarge",
                                      !.pc = "returned",
                                      !.issued = FALSE]
                ELSE rq' = [rq EXCEPT !.iter = @ + 1, !.body_size = size,
                                      !.issued = TRUE,
                                      !.pc = "streaming"]
    /\ UNCHANGED notRq

\* The stream completes and the rest of the iteration runs
\* (session.rs:220-250): the assistant message is pushed; on ToolUse the
\* tool results are pushed and the loop goes round.
StreamOk ==
    /\ rq_pc = "streaming"
    /\ \/ rq' = [rq EXCEPT !.messages = Append(@,
                              Message("assistant", Content_blocks(<<Text(<<"x", "x">>)>>))),
                           !.pc = "returned",
                           !.result = "Ok"]
       \/ \E c \in Contents, e \in BOOLEAN :
          rq' = [rq EXCEPT !.messages = @
                   \o <<Message("assistant", Content_blocks(<<ToolUse(1, "bash", EmptyObject)>>)),
                        Message("user", Content_blocks(<<ToolResult(1, c, e)>>))>>,
                           !.pc = "head"]
    /\ UNCHANGED notRq

\* The stream fails (api.rs:406-426, session.rs:211-217).
StreamErr ==
    /\ rq_pc = "streaming"
    /\ rq' = [rq EXCEPT !.messages = RollBack(rq_messages, rq_rollback_len),
                        !.pc = "returned",
                        !.result = "StreamError"]
    /\ UNCHANGED notRq

NextRequest ==
    \/ SendMessageSized
    \/ Preflight
    \/ StreamOk
    \/ StreamErr

SpecRequest == InitRequest /\ [][NextRequest]_vars

\* C21: a serialized body (after tool-result truncation) larger than S makes
\* stream_message fail with the request-too-large error before any HTTP
\* request is issued, and send_message rolls the conversation back to what
\* it was before the call; a body of at most S bytes is sent.
C21_RequestSizeChecked ==
    /\ body_size > MAX_REQUEST_SIZE =>
         /\ rq_result = "RequestTooLarge"
         /\ ~issued
         /\ rq_pc = "returned"
         /\ rq_messages = rq_pre
         /\ Len(rq_messages) = rq_rollback_len
    /\ body_size \in 0 .. MAX_REQUEST_SIZE =>
         /\ issued
         /\ rq_result # "RequestTooLarge"
    /\ rq_result = "RequestTooLarge" => body_size > MAX_REQUEST_SIZE

\* A tool pass made the body one byte too large: the second stream_message
\* call of a turn failed and the whole turn was rolled back.
C21_Witness ==
    /\ rq_result = "RequestTooLarge"
    /\ body_size = MAX_REQUEST_SIZE + 1
    /\ rq_iter = 2
    /\ rq_messages = rq_pre
    /\ Len(rq_pre) = bootstrap_len

\* A body of exactly S bytes was sent.
C21_SentAtLimit == issued /\ body_size = MAX_REQUEST_SIZE /\ rq_pc = "streaming"

\* The first request of a turn was refused.
C21_FirstRequestRefused == rq_result = "RequestTooLarge" /\ rq_iter = 1

---------------------------------------------------------------------------
(* FileWalker (search/src/walk.rs) over a directory that changes between   *)
(* walks.  Every path has an extension of TEXT_EXTENSIONS and is not       *)
(* ignored.  A file is "text" (readable UTF-8 without a NUL byte),         *)
(* "binary" (rejected by is_binary or String::from_utf8) or "large" (over  *)
(* MAX_FILE_SIZE); its mtime is 1 .. MaxTime, or 0 for a time before the   *)
(* Unix epoch, for which duration_since fails and get_mtime returns None.  *)
(* The Vec of changes and the Vec of removed paths are modelled as sets:   *)
(* their order is the order of the directory walk and of the HashMap.      *)

MaxTime == 2        \* modification times after the epoch

WalkPaths == {"a.rs", "b.rs"}
FileKinds == {"text", "binary", "large"}
NoFile == [exists |-> FALSE, kind |-> "text", mtime |-> 0]
Files == [exists : {TRUE}, kind : FileKinds, mtime : 0 .. MaxTime]

\* get_mtime
get_mtime(f) == IF f.mtime >= 1 THEN [some |-> TRUE, t |-> f.mtime]
                ELSE [some |-> FALSE, t |-> 0]

\* The entries that pass the checks made before the file is read: is_file,
\* is_text_file, metadata and MAX_FILE_SIZE.
Walked(dir) == {p \in WalkPaths : dir[p].exists /\ dir[p].kind # "large"}

\* The entries that also pass read, is_binary and String::from_utf8.
Accepted(dir) == {p \in Walked(dir) : dir[p].kind = "text"}

\* walk_all: the new table and the entries returned.
walk_all(dir) ==
    [mtimes |-> [p \in {q \in Accepted(dir) : get_mtime(dir[q]).some} |-> dir[p].mtime],
     entries |-> Accepted(dir)]

\* The entry is skipped as unchanged.
unchanged(table, dir, p) ==
    /\ p \in DOMAIN table
    /\ get_mtime(dir[p]).some
    /\ get_mtime(dir[p]).t = table[p]

\* walk_incremental: the new table, the changes and the removed paths.
walk_incremental(table, dir) ==
    LET seen == Walked(dir)
        changed == {p \in Accepted(dir) : ~unchanged(table, dir, p)}
        stamped == {p \in changed : get_mtime(dir[p]).some}
        kept == {p \in seen : unchanged(table, dir, p)}
        carried == {k \in DOMAIN table : k \in seen /\ k \notin kept \cup stamped}
    IN  [mtimes |-> [p \in kept \cup stamped \cup carried |->
                        IF p \in stamped THEN dir[p].mtime ELSE table[p]],
         changes |-> {[relative |-> p,
                       kind |-> IF p \in DOMAIN table THEN "Modified" ELSE "Added"] :
                      p \in changed},
         removed |-> {k \in DOMAIN table : k \notin seen}]

InitWalk ==
    /\ walker \in {[fs |-> f, mtimes |-> <<>>, walk_result |-> NoWalk, dirty |-> {},
                    irregular |-> \E p \in WalkPaths : f[p].exists /\ f[p].mtime = 0] :
                   f \in [WalkPaths -> {NoFile} \cup Files]}
    /\ IdleButWalk

\* A file is created, written or deleted by another process.
Change(p, f) ==
    walker' = [walker EXCEPT !.fs[p] = f,
                             !.dirty = @ \cup {p},
                             !.irregular = (@ \/ (f.exists /\ f.mtime = 0))]

CreateFile ==
    /\ \E p \in WalkPaths, f \in Files : ~fs[p].exists /\ Change(p, f)
    /\ UNCHANGED notWalk

ModifyFile ==
    /\ \E p \in WalkPaths, f \in Files : fs[p].exists /\ f # fs[p] /\ Change(p, f)
    /\ UNCHANGED notWalk

DeleteFile ==
    /\ \E p \in WalkPaths : fs[p].exists /\ Change(p, NoFile)
    /\ UNCHANGED notWalk

\* FileWalker::walk_all
WalkAll ==
    /\ walker' = [walker EXCEPT
                     !.mtimes = walk_all(fs).mtimes,
                     !.walk_result = [kind |-> "all", changes |-> {}, removed |-> {},
                                      table |-> mtimes, dirty |-> dirty],
                     !.dirty = {}]
    /\ UNCHANGED notWalk

\* FileWalker::walk_incremental, after a first walk_all (lib.rs: the index
\* is built by walk_all and updated by walk_incremental).
WalkIncremental ==
    /\ walk_result.kind # "none"
    /\ LET r == walk_incremental(mtimes, fs) IN
       walker' = [walker EXCEPT
                     !.mtimes = r.mtimes,
                     !.walk_result = [kind |-> "incremental", changes |-> r.changes,
                                      removed |-> r.removed, table |-> mtimes,
                                      dirty |-> dirty],
                     !.dirty = {}]
    /\ UNCHANGED notWalk

NextWalk ==
    \/ CreateFile
    \/ ModifyFile
    \/ DeleteFile
    \/ WalkAll
    \/ WalkIncremental

SpecWalk == InitWalk /\ [][NextWalk]_vars

\* The state walk_incremental has just returned from.
AfterIncremental == walk_result.kind = "incremental" /\ dirty = {}

\* The stored modified-time of p differs from the current one.
Differs(p) ==
    /\ p \in DOMAIN walk_result.table
    /\ ~(get_mtime(fs[p]).some /\ get_mtime(fs[p]).t = walk_result.table[p])

\* C22: walk_incremental reports exactly the accepted files that are new,
\* that is not recorded in the table (Added), or whose modified-time differs
\* from the stored one (Modified), reports as removed exactly the recorded
\* paths that the walk no longer finds, reports no path both as a change and
\* as removed, and reports nothing when no file changed since the previous
\* walk.
C22_IncrementalReportsChanges ==
    AfterIncremental =>
      /\ walk_result.changes =
            {[relative |-> p, kind |-> "Added"] :
               p \in Accepted(fs) \ DOMAIN walk_result.table}
            \cup {[relative |-> p, kind |-> "Modified"] :
                    p \in {q \in Accepted(fs) : Differs(q)}}
      /\ walk_result.removed = {p \in DOMAIN walk_result.table : p \notin Walked(fs)}
      /\ {c.relative : c \in walk_result.changes} \cap walk_result.removed = {}
      /\ walk_result.dirty = {} => walk_result.changes = {} /\ walk_result.removed = {}

\* The same while every file has had a modified-time after the epoch.
C22_HoldsWithModifiedTimes == irregular \/ C22_IncrementalReportsChanges

\* An unchanged directory walked again: a file is reported as Added.
C22_UnchangedReported ==
    AfterIncremental /\ walk_result.dirty = {} /\ walk_result.changes # {}

---------------------------------------------------------------------------
(* Mergeable::merge for PermissionConfig on its own (config.rs:88-96),     *)
(* over three layers as load_settings_from_paths folds them                *)
(* (config.rs:134-140).                                                    *)

MaxList == 2        \* entries of the allow list of one layer

PermissionConfig_default == [allow |-> <<>>, deny |-> <<>>, additional_directories |-> <<>>]

AllowLists == UNION {[1 .. n -> {"Bash(ls:*)", "Bash(rm:*)"}] : n \in 0 .. MaxList}
Configs == [allow : AllowLists,
            deny : {<<>>, <<"Bash(rm:*)">>},
            additional_directories : {<<>>, <<"/a">>}]

InitMerge ==
    /\ layers \in [cfgA : Configs, cfgB : Configs, cfgC : Configs,
                   merged : {[status |-> "pending"]}]
    /\ IdleButMerge

\* The merges of the layers: of two, with the default configuration on
\* either side, and of three, folded from the left and from the right.
Merge ==
    /\ merged.status = "pending"
    /\ layers' = [layers EXCEPT !.merged =
                     [status |-> "done",
                      ab |-> merge(cfgA, cfgB),
                      a_default |-> merge(cfgA, PermissionConfig_default),
                      default_a |-> merge(PermissionConfig_default, cfgA),
                      ab_c |-> merge(merge(cfgA, cfgB), cfgC),
                      a_bc |-> merge(cfgA, merge(cfgB, cfgC))]]
    /\ UNCHANGED notMerge

NextMerge == Merge

SpecMerge == InitMerge /\ [][NextMerge]_vars

\* The list l is the list a followed by the list b.
Followed(l, a, b) ==
    /\ Len(l) = Len(a) + Len(b)
    /\ \A i \in 1 .. Len(a) : l[i] = a[i]
    /\ \A i \in 1 .. Len(b) : l[Len(a) + i] = b[i]

ConfigFields == {"allow", "deny", "additional_directories"}

\* C23: merge(A, B) yields, for each of allow, deny and
\* additional_directories, the list of A followed by the list of B with
\* order and duplicates preserved; merging with the empty configuration on
\* either side returns the other configuration unchanged; merging three
\* layers gives the same lists whichever pair is merged first.
C23_MergeConcatenates ==
    merged.status = "done" =>
      /\ \A f \in ConfigFields : Followed(merged.ab[f], cfgA[f], cfgB[f])
      /\ merged.a_default = cfgA
      /\ merged.default_a = cfgA
      /\ merged.ab_c = merged.a_bc

\* Two layers that share an allow rule and a deny rule were merged with a
\* third: the duplicates are kept.
C23_Witness ==
    /\ merged.status = "done"
    /\ cfgA.allow = <<"Bash(ls:*)", "Bash(rm:*)">>
    /\ cfgB.allow = <<"Bash(rm:*)", "Bash(ls:*)">>
    /\ cfgA.deny = <<"Bash(rm:*)">>
    /\ cfgB.deny = <<"Bash(rm:*)">>
    /\ cfgC.allow # <<>>
    /\ merged.ab.allow = <<"Bash(ls:*)", "Bash(rm:*)", "Bash(rm:*)", "Bash(ls:*)">>
    /\ merged.ab.deny = <<"Bash(rm:*)", "Bash(rm:*)">>

---------------------------------------------------------------------------
(* EditTool::execute (core/src/tools/edit.rs:42-111).  A text is a         *)
(* sequence of characters; the file is absent or holds a text.             *)

MaxText == 3        \* characters of the file, of old_string and of new_string

Texts == UNION {[1 .. n -> {"a", "b"}] : n \in 0 .. MaxText}

\* pat is found in c at character i.
is_at(c, pat, i) ==
    /\ i + Len(pat) - 1 <= Len(c)
    /\ SubSeq(c, i, i + Len(pat) - 1) = pat

\* content.matches(pat).count() from character i on: the matches are
\* searched from the left and do not overlap; the empty pattern matches at
\* every character boundary.
RECURSIVE matches_count(_, _, _)
matches_count(c, pat, i) ==
    IF i > Len(c) THEN (IF pat = <<>> THEN 1 ELSE 0)
    ELSE IF is_at(c, pat, i)
           THEN 1 + matches_count(c, pat, IF pat = <<>> THEN i + 1 ELSE i + Len(pat))
           ELSE matches_count(c, pat, i + 1)

\* str::replacen from character i on, with n replacements left.
RECURSIVE replacen(_, _, _, _, _)
replacen(c, from, to, i, n) ==
    IF i > Len(c) THEN (IF from = <<>> /\ n > 0 THEN to ELSE <<>>)
    ELSE IF n > 0 /\ is_at(c, from, i)
           THEN IF from = <<>>
                  THEN to \o <<c[i]>> \o replacen(c, from, to, i + 1, n - 1)
                  ELSE to \o replacen(c, from, to, i + Len(from), n - 1)
           ELSE <<c[i]>> \o replacen(c, from, to, i + 1, n)

\* str::replace
replace(c, from, to) == replacen(c, from, to, 1, Len(c) + 1)

File(c) == [exists |-> TRUE, content |-> c]
NoSuchFile == [exists |-> FALSE, content |-> <<>>]

InitEdit ==
    /\ edit \in {[input |-> i, before |-> f, file |-> f, output |-> "pending"] :
                   i \in [old_string : Texts, new_string : Texts, replace_all : BOOLEAN],
                   f \in {NoSuchFile} \cup {File(c) : c \in Texts}}
    /\ IdleButEdit

\* What tokio::fs::write leaves when it fails: the file as it was when it
\* cannot be opened, or truncated and written in part.
WriteFailed(before, new_content) ==
    {before} \cup {File(SubSeq(new_content, 1, n)) : n \in 0 .. Len(new_content) - 1}

\* EditTool::execute, from read_to_string on.
Execute ==
    /\ ed_output = "pending"
    /\ LET old_string == ed_input.old_string
           new_string == ed_input.new_string
           replace_all == ed_input.replace_all
           text == ed_file.content
           count == matches_count(text, old_string, 1)
           new_content == IF replace_all THEN replace(text, old_string, new_string)
                          ELSE replacen(text, old_string, new_string, 1, 1)
       IN  IF ~ed_file.exists
             THEN edit' = [edit EXCEPT !.output = "Failed to read"]
           ELSE IF old_string = new_string
             THEN edit' = [edit EXCEPT !.output = "must be different"]
           ELSE IF count = 0
             THEN edit' = [edit EXCEPT !.output = "not found"]
           ELSE IF ~replace_all /\ count > 1
             THEN edit' = [edit EXCEPT !.output = "not unique"]
           ELSE \/ edit' = [edit EXCEPT !.file = File(new_content),
                                        !.output = "success"]
                \/ \E left \in WriteFailed(ed_file, new_content) :
                      edit' = [edit EXCEPT !.file = left,
                                           !.output = "Failed to write"]
    /\ UNCHANGED notEdit

NextEdit == Execute

SpecEdit == InitEdit /\ [][NextEdit]_vars

\* The characters of c at which old_string occurs.
Occurrences(c, pat) == {i \in 1 .. Len(c) + 1 : is_at(c, pat, i)}

\* Two occurrences of old_string in c share a character.
Overlapping(c, pat) ==
    \E i, j \in Occurrences(c, pat) : i < j /\ j < i + Len(pat)

ErrorOutputs == {"Failed to read", "must be different", "not found", "not unique",
                 "Failed to write"}

\* C24: Edit returns an error and leaves the file unchanged when old_string
\* equals new_string, when old_string does not occur, and when it occurs
\* more than once and replace_all is false; it writes the file only when
\* old_string occurs exactly once (that occurrence is replaced) or
\* replace_all is true (every occurrence is replaced).
C24_EditErrorsLeaveFile ==
    (ed_output # "pending" /\ ed_before.exists) =>
      LET c == ed_before.content
          old == ed_input.old_string
          new == ed_input.new_string
          n == Cardinality(Occurrences(c, old))
      IN  /\ (old = new \/ n = 0 \/ (n > 1 /\ ~ed_input.replace_all)) =>
               /\ ed_output \in ErrorOutputs
               /\ ed_file = ed_before
          /\ ed_file # ed_before => (n = 1 \/ ed_input.replace_all)
          /\ (ed_output = "success" /\ ~ed_input.replace_all) =>
               \E i \in Occurrences(c, old) :
                  ed_file = File(SubSeq(c, 1, i - 1) \o new \o SubSeq(c, i + Len(old), Len(c)))
          /\ (ed_output = "success" /\ ed_input.replace_all) =>
               ed_file = File(replace(c, old, new))

\* The same for the calls in which no two occurrences of old_string overlap.
C24_HoldsWithoutOverlap ==
    Overlapping(ed_before.content, ed_input.old_string) \/ C24_EditErrorsLeaveFile

\* A failed write left the file changed and the tool returned an error.
C24_FailedWriteChangesFile == ed_output = "Failed to write" /\ ed_file # ed_before

---------------------------------------------------------------------------
(* SearchIndex::search (search/src/lib.rs:155-209) with rrf_merge          *)
(* (hybrid.rs:11-35) and apply_boost (snippet.rs:11-35).  A path is a      *)
(* string.  A score is the exact fraction [n, d]; for the ranks of the     *)
(* model the f32 values of the source are ordered as the fractions are.    *)
(* The scores that the two indexes attach to their results are not read    *)
(* by rrf_merge and are left out.                                          *)

MaxRank == 2        \* results returned by one index
MaxLimit == 2       \* the limit argument

K == 60

Frac(n, d) == [n |-> n, d |-> d]
Plus(a, b) == Frac(a.n * b.d + b.n * a.d, a.d * b.d)
Times(a, b) == Frac(a.n * b.n, a.d * b.d)
\* partial_cmp(a, b) = Less
Less(a, b) == a.n * b.d < b.n * a.d

\* str::contains, str::ends_with and str::to_lowercase on ASCII text
contains(s, pat) ==
    \E i \in 1 .. Len(s) - Len(pat) + 1 : SubSeq(s, i, i + Len(pat) - 1) = pat
ends_with(s, pat) ==
    Len(pat) <= Len(s) /\ SubSeq(s, Len(s) - Len(pat) + 1, Len(s)) = pat
RECURSIVE to_lowercase(_)
to_lowercase(s) ==
    IF s = "" THEN ""
    ELSE LET c == SubSeq(s, 1, 1)
             upper == "ABCDEFGHIJKLMNOPQRSTUVWXYZ"
             lower == "abcdefghijklmnopqrstuvwxyz"
             at == {i \in 1 .. Len(upper) : SubSeq(upper, i, i) = c}
         IN  (IF at = {} THEN c ELSE LET i == CHOOSE j \in at : TRUE IN SubSeq(lower, i, i))
             \o to_lowercase(SubSeq(s, 2, Len(s)))

\* A cascade that tries the source rule before the others.
boost_factor_sourceFirst(path) ==
    LET p == to_lowercase(path) IN
    IF contains(p, "/src") \/ contains(p, "/lib") THEN Frac(11, 10)
    ELSE IF contains(p, "/test") \/ contains(p, "_test.") \/ contains(p, ".test.")
       \/ contains(p, ".spec.")
      THEN Frac(5, 10)
    ELSE IF contains(p, "/mock") \/ contains(p, ".mock.") THEN Frac(4, 10)
    ELSE IF ends_with(p, ".md") \/ contains(p, "/docs/") THEN Frac(6, 10)
    ELSE Frac(1, 1)

\* The factor apply_boost multiplies the score by.
boost_factor(path) ==
    LET p == to_lowercase(path) IN
    IF contains(p, "/test") \/ contains(p, "_test.") \/ contains(p, ".test.")
       \/ contains(p, ".spec.")
      THEN Frac(5, 10)
    ELSE IF contains(p, "/mock") \/ contains(p, ".mock.") THEN Frac(4, 10)
    ELSE IF ends_with(p, ".md") \/ contains(p, "/docs/") THEN Frac(6, 10)
    ELSE IF contains(p, "/src") \/ contains(p, "/lib") THEN Frac(11, 10)
    ELSE Frac(1, 1)

\* The paths of the indexed files.
SearchPaths == {"core/src/api.rs", "core/src/api_test.rs", "docs/Mock.md", "README.md",
                "Cargo.toml"}

\* The factor of each indexed path, computed once.
BoostFactors == [p \in SearchPaths |-> boost_factor(p)]

apply_boost(path, score) == Times(score, BoostFactors[path])

\* The sum of 1.0 / (K + rank + 1.0) over the entries of the list that hold
\* the path; rank counts from 0.
RECURSIVE rank_score(_, _, _)
rank_score(list, path, i) ==
    IF i > Len(list) THEN Frac(0, 1)
    ELSE IF list[i] = path THEN Plus(Frac(1, K + i), rank_score(list, path, i + 1))
    ELSE rank_score(list, path, i + 1)

\* A sort that puts the smallest score first.
RECURSIVE Ascending(_, _)
Ascending(S, score) ==
    IF S = {} THEN {<<>>}
    ELSE UNION {{<<p>> \o t : t \in Ascending(S \ {p}, score)} :
                p \in {q \in S : \A r \in S : ~Less(score[r], score[q])}}

\* The orders that a stable sort by descending score can leave the entries
\* of a HashMap in: entries of equal score in any order.
RECURSIVE Descending(_, _)
Descending(S, score) ==
    IF S = {} THEN {<<>>}
    ELSE UNION {{<<p>> \o t : t \in Descending(S \ {p}, score)} :
                p \in {q \in S : \A r \in S : ~Less(score[q], score[r])}}

\* rrf_merge: the lists it can return.
rrf_merge(bm25, semantic, limit) ==
    LET keys == {bm25[i] : i \in DOMAIN bm25} \cup {semantic[i] : i \in DOMAIN semantic}
        scores == [p \in keys |-> Plus(rank_score(bm25, p, 1), rank_score(semantic, p, 1))]
    IN  {[i \in 1 .. (IF limit < Len(s) THEN limit ELSE Len(s)) |->
            [path |-> s[i], score |-> scores[s[i]]]] : s \in Descending(keys, scores)}

\* Vec::sort_by on the boosted score, descending: a stable insertion of each
\* hit after the hits that are not smaller.
RECURSIVE sort_by_score(_)
sort_by_score(hs) ==
    IF hs = <<>> THEN <<>>
    ELSE LET rest == sort_by_score(SubSeq(hs, 1, Len(hs) - 1))
             h == hs[Len(hs)]
             k == Cardinality({i \in DOMAIN rest : ~Less(rest[i].score, h.score)})
         IN  SubSeq(rest, 1, k) \o <<h>> \o SubSeq(rest, k + 1, Len(rest))

\* search, after the two indexes have answered: the hits for one of the
\* lists rrf_merge can return.
search_hits(m) ==
    sort_by_score([i \in DOMAIN m |->
                     [path |-> m[i].path, score |-> apply_boost(m[i].path, m[i].score)]])

\* Lists of distinct paths.
Ranked == {s \in UNION {[1 .. n -> SearchPaths] : n \in 0 .. MaxRank} :
             \A i, j \in DOMAIN s : i # j => s[i] # s[j]}

\* Each index is asked for fetch_limit = limit * 2 results.
InitSearch ==
    /\ query \in {[bm25_results |-> b, semantic_results |-> m, limit |-> l,
                   searched |-> FALSE, merged |-> <<>>, hits |-> <<>>] :
                  l \in 0 .. MaxLimit, b \in Ranked, m \in Ranked}
    /\ Len(bm25_results) <= q_limit * 2
    /\ Len(semantic_results) <= q_limit * 2
    /\ IdleButSearch

Search ==
    /\ ~searched
    /\ \E m \in rrf_merge(bm25_results, semantic_results, q_limit) :
          query' = [query EXCEPT !.searched = TRUE,
                                 !.merged = m,
                                 !.hits = search_hits(m)]
    /\ UNCHANGED notSearch

NextSearch == Search

SpecSearch == InitSearch /\ [][NextSearch]_vars

\* The paths of a list of results, in its order.
PathsOf(m) == [i \in DOMAIN m |-> m[i].path]

\* The paths that one list holds and the other does not.
InOneOnly ==
    LET b == {bm25_results[i] : i \in DOMAIN bm25_results}
        s == {semantic_results[i] : i \in DOMAIN semantic_results}
    IN  (b \ s) \cup (s \ b)

Distinct ==
    {bm25_results[i] : i \in DOMAIN bm25_results}
    \cup {semantic_results[i] : i \in DOMAIN semantic_results}

FusedAlone ==
    /\ (semantic_results = <<>> /\ q_limit >= Len(bm25_results)) =>
          PathsOf(rrf_merged) = bm25_results
    /\ (bm25_results = <<>> /\ q_limit >= Len(semantic_results)) =>
          PathsOf(rrf_merged) = semantic_results

\* C25 as stated: rrf_merge(L, empty) and rrf_merge(empty, L) return the
\* paths of L in L's order when the limit is at least the length of L; an
\* item present in only one of two non-empty lists appears in the fused
\* result.
C25_FusedKeepsSingles ==
    searched =>
      /\ FusedAlone
      /\ (bm25_results # <<>> /\ semantic_results # <<>>) =>
            \A p \in InOneOnly : \E i \in DOMAIN rrf_merged : rrf_merged[i].path = p

\* C25, amended: an item present in only one of two non-empty lists appears
\* in the fused result when the limit is at least the number of distinct
\* paths of the two lists.
C25_FusedKeepsSinglesWithinLimit ==
    searched =>
      /\ FusedAlone
      /\ (bm25_results # <<>> /\ semantic_results # <<>>
          /\ q_limit >= Cardinality(Distinct)) =>
            \A p \in InOneOnly : \E i \in DOMAIN rrf_merged : rrf_merged[i].path = p

\* A path of the first list only is fused behind a path of both lists.
C25_Witness ==
    /\ searched
    /\ bm25_results = <<"Cargo.toml", "README.md">>
    /\ semantic_results = <<"README.md">>
    /\ q_limit = 2
    /\ PathsOf(rrf_merged) = <<"README.md", "Cargo.toml">>

\* A list fused with the empty list keeps its order.
C25_AloneReached ==
    /\ searched
    /\ semantic_results = <<>>
    /\ Len(bm25_results) = 2
    /\ PathsOf(rrf_merged) = bm25_results

\* The boost rules in their order: test, mock, docs, source.
BoostRules == 1 .. 4

RuleMatches(r, p) ==
    CASE r = 1 -> \E w \in {"/test", "_test.", ".test.", ".spec."} : contains(p, w)
      [] r = 2 -> \E w \in {"/mock", ".mock."} : contains(p, w)
      [] r = 3 -> ends_with(p, ".md") \/ contains(p, "/docs/")
      [] r = 4 -> \E w \in {"/src", "/lib"} : contains(p, w)

RuleFactor(r) ==
    CASE r = 1 -> Frac(5, 10)
      [] r = 2 -> Frac(4, 10)
      [] r = 3 -> Frac(6, 10)
      [] r = 4 -> Frac(11, 10)

\* The rules that the lowercased path matches, computed once per path.
RulesMatched ==
    [p \in SearchPaths |-> {r \in BoostRules : RuleMatches(r, to_lowercase(p))}]

MatchedRules(path) == RulesMatched[path]

SameFrac(a, b) == a.n * b.d = b.n * a.d

\* The hit of a fused entry holds the entry's score times the factor f.
BoostedBy(i, f) ==
    \E j \in DOMAIN hits :
        /\ hits[j].path = rrf_merged[i].path
        /\ SameFrac(hits[j].score, Times(rrf_merged[i].score, f))

\* C26: apply_boost multiplies the score by the factor of the first rule the
\* lowercased path matches in the order test, mock, docs, source, and by 1.0
\* when no rule matches; a path matching several rules receives only the
\* factor of the earliest.
C26_FirstMatchingBoost ==
    searched =>
      /\ Len(hits) = Len(rrf_merged)
      /\ \A i \in DOMAIN rrf_merged :
           LET rs == MatchedRules(rrf_merged[i].path) IN
           IF rs = {} THEN BoostedBy(i, Frac(1, 1))
           ELSE \E r \in rs : (\A q \in rs : r <= q) /\ BoostedBy(i, RuleFactor(r))

\* A test file under a source directory and a mock under docs are boosted by
\* the test and the mock factor.
C26_Witness ==
    /\ searched
    /\ MatchedRules("core/src/api_test.rs") = {1, 4}
    /\ MatchedRules("docs/Mock.md") = {2, 3}
    /\ \E i, j \in DOMAIN rrf_merged :
         /\ rrf_merged[i].path = "core/src/api_test.rs"
         /\ rrf_merged[j].path = "docs/Mock.md"
         /\ BoostedBy(i, Frac(1, 2))
         /\ BoostedBy(j, Frac(2, 5))

\* The boosted score of a path fused from the two result lists.
BoostedScore(p) ==
    apply_boost(p, Plus(rank_score(bm25_results, p, 1), rank_score(semantic_results, p, 1)))

HitPaths == {hits[i].path : i \in DOMAIN hits}

\* The hits are the best by boosted score among all the fused paths, in
\* descending order.
BestBoosted ==
    /\ \A i \in DOMAIN hits : hits[i].path \in Distinct
                              /\ SameFrac(hits[i].score, BoostedScore(hits[i].path))
    /\ \A i, j \in DOMAIN hits : i < j => ~Less(hits[i].score, hits[j].score)
    /\ \A p \in Distinct \ HitPaths :
         \A i \in DOMAIN hits : ~Less(hits[i].score, BoostedScore(p))

Min(a, b) == IF a < b THEN a ELSE b

\* C30: search returns the `limit` items with the highest boosted scores
\* among all items fused from the two result lists: the boost is applied to
\* every fused item and the list re-sorted before the cut to `limit`.
C30_CutAfterBoost ==
    searched =>
      /\ Len(hits) = Min(q_limit, Cardinality(Distinct))
      /\ Cardinality(HitPaths) = Len(hits)
      /\ BestBoosted

\* The statement holds when the limit cuts nothing.
C30_HoldsWithoutCut ==
    (searched /\ q_limit >= Cardinality(Distinct)) =>
      /\ Len(hits) = Cardinality(Distinct)
      /\ Cardinality(HitPaths) = Len(hits)
      /\ BestBoosted

\* A source file with the best boosted score is cut before the boost.
C30_BestCutBeforeBoost ==
    /\ searched
    /\ q_limit = 1
    /\ bm25_results = <<"core/src/api_test.rs", "core/src/api.rs">>
    /\ semantic_results = <<>>
    /\ HitPaths = {"core/src/api_test.rs"}
    /\ Less(hits[1].score, BoostedScore("core/src/api.rs"))

\* ---- the events of the calls that ran (Spec)

\* The calls of the pass that were permitted and handed to join_all.
PreparedIds == {prepared[i].id : i \in DOMAIN prepared}

\* on_tool_executing, on_tool_result and on_tool_use_end of the call id are
\* the events k, k + 1 and k + 2.
ThreeAt(id, k) ==
    /\ k + 2 <= Len(events)
    /\ events[k] = Ev("on_tool_executing", id)
    /\ events[k + 1] = Ev("on_tool_result", id)
    /\ events[k + 2] = Ev("on_tool_use_end", id)

\* C27: for each permitted tool call, the sink receives on_tool_executing,
\* on_tool_result and on_tool_use_end as three consecutive events in phase 3,
\* after all concurrent executions of the pass have completed, call by call
\* in input order.
C27_ThreeEventsInPhase3 ==
    /\ pc \in {"perm", "exec"} =>
         \A id \in PreparedIds :
            Pos("on_tool_executing", id) \cup Pos("on_tool_result", id)
               \cup Pos("on_tool_use_end", id) = {}
    /\ PassReturned =>
         /\ \A id \in PreparedIds : \E k \in DOMAIN events : ThreeAt(id, k)
         /\ \A i, j \in DOMAIN prepared :
              i < j => \A k \in Pos("on_tool_use_end", prepared[i].id) :
                         \A l \in Pos("on_tool_executing", prepared[j].id) : k < l

\* What holds of the code: on_tool_result and on_tool_use_end of the calls
\* that ran are emitted after the executions, as consecutive events, call by
\* call in input order, and on_tool_executing of each call precedes them.
C27_ResultAndEndInPhase3 ==
    /\ pc \in {"perm", "exec"} =>
         \A id \in PreparedIds :
            Pos("on_tool_result", id) \cup Pos("on_tool_use_end", id) = {}
    /\ PassReturned =>
         /\ \A id \in PreparedIds :
              /\ \E k \in Pos("on_tool_result", id) : events[k + 1] = Ev("on_tool_use_end", id)
              /\ \A k \in Pos("on_tool_executing", id) :
                   \A l \in Pos("on_tool_result", id) : k < l
         /\ \A i, j \in DOMAIN prepared :
              i < j => \A k \in Pos("on_tool_use_end", prepared[i].id) :
                         \A l \in Pos("on_tool_result", prepared[j].id) : k < l

\* A call is announced as executing while the executions of the pass have
\* not completed.
C27_ExecutingBeforeCompletion ==
    /\ pc = "exec"
    /\ \E i \in DOMAIN outputs :
         /\ outputs[i] = "pending"
         /\ Pos("on_tool_executing", prepared[i].id) # {}

\* A pass over two calls that ran: the first call's three events are not
\* consecutive.
C27_NotConsecutive ==
    /\ PassReturned
    /\ Len(prepared) = 2
    /\ ~ \E k \in DOMAIN events : ThreeAt(prepared[1].id, k)

\* ---- the blocks of the decoder's result (SpecDecoder)

\* The server opened a text or tool_use block last and has not stopped it.
LiveOpened == opened.type \in {"text", "tool_use"} /\ ~opened.stopped

\* The block that the events since the last content_block_start describe.
BlockOfOpened ==
    IF opened.type = "text"
      THEN Text(Concat(ChunksOf(opened.deltas, "text_delta")))
      ELSE LET parsed == from_str(Concat(ChunksOf(opened.deltas, "input_json_delta")))
           IN  ToolUse(opened.id, opened.name,
                       IF parsed.ok THEN parsed.value ELSE EmptyObject)

\* The step is the handling of a content_block_stop.
StopHandled == es = "open" /\ fed' = fed + 1 /\ last'.event = "content_block_stop"

\* C28: the decoder's result holds exactly the blocks whose
\* content_block_start of type text or tool_use was followed by a
\* content_block_stop with no other content_block_start in between, in the
\* order of the stops; a block still open at the end of the stream or
\* replaced by a new content_block_start contributes no block and none of
\* its content to another block.
C28_BlocksAreStoppedBlocks ==
    [][IF es = "none" THEN state'.blocks = <<>>
       ELSE IF StopHandled /\ LiveOpened
         THEN state'.blocks = Append(state.blocks, BlockOfOpened)
         ELSE state'.blocks = state.blocks]_vars

\* C28 witness: a text block with content is replaced by another text
\* block, which is stopped, and the stream completes: the result is the
\* second block alone.
C28_Witness ==
    /\ es = "closed"
    /\ stream_result = "Ok"
    /\ starts = 2
    /\ sink = <<on_text(<<"a">>), on_text(<<"b">>)>>
    /\ state.blocks = <<Text(<<"b">>)>>

\* A block that is open when the stream completes is not in the result.
C28_OpenAtEnd ==
    /\ es = "closed"
    /\ stream_result = "Ok"
    /\ LiveOpened
    /\ opened.deltas # <<>>
    /\ state.blocks = <<>>

\* ---- the events the decoder ignores (SpecDecoder)

\* The delta type is the one that the kind of the open block takes.
Fits(kind, type) ==
    \/ kind = "Text" /\ type = "text_delta"
    \/ kind = "ToolUse" /\ type = "input_json_delta"

\* The event is one of those that the decoder in the state st has to ignore.
Ignored(ev, st) ==
    \/ ev.event \in {"ping", "unknown"}
    \/ /\ ev.event = "content_block_delta"
       /\ ~ev.malformed
       /\ st.current.kind = "None" \/ (ev.delta.present /\ ~Fits(st.current.kind, ev.delta.type))
    \/ ev.event = "content_block_stop" /\ st.current.kind = "None"

\* C29: a ping, an event of unknown type, a content_block_delta that arrives
\* while no block is open or whose delta type does not fit the kind of the
\* open block, and a content_block_stop with no open block leave the blocks,
\* the open block, the usage and the stop reason unchanged, emit nothing to
\* the sink and do not end the stream.
C29_IgnoredEventsChangeNothing ==
    [][(es = "open" /\ fed' = fed + 1 /\ Ignored(last', state)) =>
          /\ state' = state
          /\ sink' = sink
          /\ es' = "open"
          /\ stream_result' = stream_result]_vars

\* C29 witness: an input_json_delta arrives for an open text block that
\* holds a chunk; the block and the sink are as they were.
C29_Witness ==
    /\ es = "open"
    /\ fed = 3
    /\ last = content_block_delta("input_json_delta", <<"{", "}">>)
    /\ state.current = [kind |-> "Text", text |-> <<"a">>]
    /\ state.blocks = <<>>
    /\ sink = <<on_text(<<"a">>)>>

\* Events of each ignored kind are handled with no block open.
C29_IgnoredWithNoBlock ==
    /\ es = "open"
    /\ fed = 4
    /\ last = unknown_event
    /\ state.current.kind = "None"
    /\ Len(state.blocks) = 1
    /\ opened.stopped

\* ---- request construction over every tool output (SpecRequest, SpecTruncate)

\* The ToolResult contents of the messages.
ToolResultContents(msgs) ==
    UNION {{msgs[i].content.blocks[k].content :
              k \in {j \in DOMAIN msgs[i].content.blocks :
                       msgs[i].content.blocks[j].type = "tool_result"}} :
           i \in DOMAIN msgs}

\* C35: truncate_tool_results completes normally for every ToolResult
\* content longer than T bytes, including content in which byte offset T
\* falls inside a multi-byte UTF-8 character; no tool output can make
\* request construction abort.
C35_RequestConstructionCompletes == rq_pc # "panicked"

\* What holds of the code: truncate_tool_results panics only on a content
\* longer than T bytes whose byte offset T is not a character boundary.
C35_PanicsInsideCharacterOnly ==
    truncated_messages.status = "panic" <=>
       /\ truncated_messages.status # "pending"
       /\ \E c \in ToolResultContents(tr_messages) :
             Len(c) > MAX_TOOL_RESULT_SIZE /\ ~is_char_boundary(c, MAX_TOOL_RESULT_SIZE)

\* send_message is aborted by the output of a tool that ran in it.
C35_ToolOutputAbortsRequest ==
    /\ rq_pc = "panicked"
    /\ rq_iter = 2
    /\ \E c \in ToolResultContents(rq_messages) :
          Len(c) = MAX_TOOL_RESULT_SIZE + 1 /\ c[MAX_TOOL_RESULT_SIZE + 1] = "C"

---------------------------------------------------------------------------
(* PermissionConfig::check on paths with `..` components                   *)
(* (permission.rs:98-119, 177-183), with no allow or deny rule.            *)

\* The tool, the additional directories and the decision, "pending" before
\* the call.
pc_tool == pathcheck.tool
pc_dirs == pathcheck.dirs
pc_decision == pathcheck.decision

EscapePaths ==
    {<<"a">>,
     <<"a", "/", ".", ".", "/", "b">>,
     <<".", ".", "/", "x">>,
     <<"/", "project", "/", "a">>,
     <<"/", "project", "/", ".", ".", "/", "etc", "/", "passwd">>,
     <<"/", "etc", "/", "passwd">>,
     <<"/", "etc", "/", ".", ".", "/", "project", "/", "a">>,
     <<"/", "extra", "/", "a">>,
     <<"/", "extra", "/", ".", ".", "/", "etc", "/", "passwd">>}

EscapeDirLists == {<<>>, << <<"/", "extra">> >>, << <<"/", "extra">>, <<"/", "project", "2">> >>}

InitPathCheck ==
    /\ pathcheck \in [tool : [class : {"Read", "Write", "Edit"}, arg : EscapePaths],
                      dirs : EscapeDirLists,
                      decision : {"pending"}]
    /\ IdleButPathCheck

\* PermissionConfig::check with no rules.
CheckPath ==
    /\ pc_decision = "pending"
    /\ pathcheck' = [pathcheck EXCEPT !.decision =
                        check([allow |-> <<>>, deny |-> <<>>,
                               additional_directories |-> pc_dirs],
                              pc_tool, project_dir)]
    /\ UNCHANGED notPathCheck

NextPathCheck == CheckPath

SpecPathCheck == InitPathCheck /\ [][NextPathCheck]_vars

\* The names under the root once each `..` has taken back the name before
\* it; the parent of the root is the root.
RECURSIVE WithoutParentDirs(_, _)
WithoutParentDirs(comps, done) ==
    IF comps = <<>> THEN done
    ELSE IF Head(comps) = <<".", ".">>
      THEN WithoutParentDirs(Tail(comps),
                    IF done = <<>> THEN done ELSE SubSeq(done, 1, Len(done) - 1))
      ELSE WithoutParentDirs(Tail(comps), Append(done, Head(comps)))

\* The file that the path of the tool denotes.
Denoted ==
    <<"RootDir">>
    \o WithoutParentDirs(Names(Tail(resolve_path(pc_tool.arg, project_dir)), <<>>, FALSE), <<>>)

\* The file lies inside project_dir or an additional directory.
DenotedInside ==
    \/ starts_with(Denoted, components(project_dir))
    \/ \E i \in DOMAIN pc_dirs : starts_with(Denoted, components(pc_dirs[i]))

\* C34: with no matching allow or deny rule, check auto-allows a Read, Write
\* or Edit only if the file that the path denotes, once `..` components are
\* resolved, lies inside project_dir or an additional directory; a path that
\* leads outside those directories is unresolved.
C34_NoEscapeByParentDir ==
    pc_decision # "pending" =>
       /\ pc_decision = "Some(true)" => DenotedInside
       /\ ~DenotedInside => pc_decision = "None"

\* What holds of the code: the decision is the one claimed for every path
\* without a `..` component.
C34_HoldsWithoutParentDir ==
    (pc_decision # "pending"
     /\ \A i \in 1 .. Len(pc_tool.arg) - 1 : ~(pc_tool.arg[i] = "." /\ pc_tool.arg[i + 1] = ".")) =>
       /\ pc_decision = "Some(true)" <=> DenotedInside

\* A Write of ../x is auto-allowed.
C34_EscapeAllowed ==
    /\ pc_tool = [class |-> "Write", arg |-> <<".", ".", "/", "x">>]
    /\ pc_dirs = <<>>
    /\ pc_decision = "Some(true)"
    /\ Denoted = <<"RootDir", <<"x">> >>

\* ---- the assistant messages of the conversation (Spec)

\* The messages that send_message appended from a stream result.
AssistantFromStream ==
    {i \in DOMAIN messages : messages[i].role = "assistant" /\ messages[i].content.kind = "Blocks"}

\* C33: every assistant message that send_message appends to the
\* conversation contains at least one content block, for every event
\* sequence the stream can deliver.
C33_AssistantMessageHasBlock ==
    \A i \in AssistantFromStream : messages[i].content.blocks # <<>>

\* The stream completes before any block is stopped: the turn returns Ok
\* and the conversation ends with an assistant message without blocks.
C33_EmptyAssistantMessage ==
    /\ pc = "idle"
    /\ result = "Ok"
    /\ Len(messages) = bootstrap_len + 2
    /\ messages[Len(messages)] = Message("assistant", Content_blocks(<<>>))
    /\ starts = 1

---------------------------------------------------------------------------
(* extract_snippets (snippet.rs:53-110).  A file is its number of lines;  *)
(* the lines that contain a query term are given by their 0-based          *)
(* indices; a line of a snippet is the 1-based number of the line.         *)

MaxLines == 7       \* lines of the file
MaxContext == 2     \* the context argument
MAX_SNIPPETS == 3   \* max_snippets, as passed by search

\* The file, the matching lines, the context, and the snippets returned.
sn_lines == snip.lines
sn_matches == snip.matches
sn_context == snip.context
sn_snippets == snip.snippets
sn_done == snip.done

\* The indices of a set, ascending: enumerate() over the lines.
RECURSIVE Ascend(_)
Ascend(S) ==
    IF S = {} THEN <<>>
    ELSE LET m == CHOOSE x \in S : \A y \in S : x <= y IN <<m>> \o Ascend(S \ {m})

\* The windows (start, end), end exclusive, after the merge loop.
RECURSIVE merge_windows(_, _, _, _)
merge_windows(match_indices, context, len, windows) ==
    IF match_indices = <<>> THEN windows
    ELSE LET idx == Head(match_indices)
             start == IF idx < context THEN 0 ELSE idx - context
             end == IF idx + context + 1 < len THEN idx + context + 1 ELSE len
         IN  IF windows # <<>> /\ start <= windows[Len(windows)][2]
               THEN merge_windows(Tail(match_indices), context, len,
                                  [windows EXCEPT ![Len(windows)][2] = end])
               ELSE merge_windows(Tail(match_indices), context, len,
                                  Append(windows, <<start, end>>))

\* extract_snippets, after the file was read.
extract_snippets(len, matches, context, max_snippets) ==
    IF len = 0 \/ matches = {} THEN <<>>
    ELSE LET windows == merge_windows(Ascend(matches), context, len, <<>>)
             kept == SubSeq(windows, 1, IF Len(windows) < max_snippets THEN Len(windows)
                                        ELSE max_snippets)
         IN  [w \in DOMAIN kept |->
                [line_number |-> kept[w][1] + 1,
                 lines |-> [k \in 1 .. kept[w][2] - kept[w][1] |-> kept[w][1] + k]]]

InitSnippet ==
    /\ snip \in {[lines |-> n, matches |-> m, context |-> c, snippets |-> <<>>,
                  done |-> FALSE] :
                 n \in 0 .. MaxLines, m \in SUBSET (0 .. MaxLines - 1), c \in 0 .. MaxContext}
    /\ \A i \in sn_matches : i < sn_lines
    /\ IdleButSnippet

ExtractSnippets ==
    /\ ~sn_done
    /\ snip' = [snip EXCEPT !.done = TRUE,
                            !.snippets = extract_snippets(sn_lines, sn_matches, sn_context,
                                                          MAX_SNIPPETS)]
    /\ UNCHANGED notSnippet

NextSnippet == ExtractSnippets

SpecSnippet == InitSnippet /\ [][NextSnippet]_vars

\* The lines of a snippet, as a set of 1-based line numbers.
LinesOf(s) == {s.lines[k] : k \in DOMAIN s.lines}

\* The clamped window [i - C, i + C] of the matching line i, 1-based.
Window(i) ==
    {l \in 1 .. sn_lines : i + 1 - sn_context <= l /\ l <= i + 1 + sn_context}

\* The matching lines of S can be put in a chain in which the windows of
\* neighbours have a line in common.
RECURSIVE Chained(_)
Chained(S) ==
    \/ Cardinality(S) <= 1
    \/ LET m == CHOOSE x \in S : \A y \in S : x >= y
           rest == S \ {m}
           p == CHOOSE x \in rest : \A y \in rest : x >= y
       IN  Window(p) \cap Window(m) # {} /\ Chained(rest)

\* The statement about the snippets, with Joined(S) telling which matching
\* lines go into one snippet.
SnippetsAre(Joined(_)) ==
    /\ Len(sn_snippets) <= 3
    /\ \A a, b \in DOMAIN sn_snippets :
         a < b => \A x \in LinesOf(sn_snippets[a]), y \in LinesOf(sn_snippets[b]) : x < y
    /\ \A a \in DOMAIN sn_snippets :
         LET s == sn_snippets[a]
             inside == {i \in sn_matches : i + 1 \in LinesOf(s)}
         IN  /\ inside # {}
             /\ Joined(inside)
             /\ LinesOf(s) = UNION {Window(i) : i \in inside}
             /\ LinesOf(s) \subseteq 1 .. sn_lines
             /\ s.lines # <<>>
             /\ s.line_number = s.lines[1]
             /\ \A k \in DOMAIN s.lines : s.lines[k] = s.line_number + k - 1

\* C32: extract_snippets returns at most 3 snippets, in ascending line order
\* and pairwise non-overlapping; each snippet is the union of the clamped
\* windows [i - C, i + C] of one or more matching lines whose windows
\* overlap, contains at least one matching line, never reaches outside the
\* file, and has line_number equal to the 1-based index of its first line.
C32_SnippetsAreMergedWindows == sn_done => SnippetsAre(Chained)

AnyJoin(S) == TRUE

\* What holds of the code: everything stated, for snippets that are unions
\* of windows which overlap or follow one another directly.
C32_HoldsWithAdjacentWindows == sn_done => SnippetsAre(AnyJoin)

\* Two windows with no line in common are returned as one snippet.
C32_AdjacentWindowsMerged ==
    /\ sn_done
    /\ sn_lines = 5
    /\ sn_context = 1
    /\ sn_matches = {0, 3}
    /\ Len(sn_snippets) = 1
    /\ sn_snippets[1].lines = <<1, 2, 3, 4, 5>>

\* More than three windows: the first three are returned.
C32_ThreeKept ==
    /\ sn_done
    /\ sn_matches = {0, 2, 4, 6}
    /\ sn_context = 0
    /\ Len(sn_snippets) = 3

---------------------------------------------------------------------------
(* SearchIndex::open, update and search (search/src/lib.rs) over a         *)
(* directory that changes between the calls.  Files are those of the       *)
(* walker above, each a text file with a content; modification times are  *)
(* after the epoch.  A BM25 document is the content added under a path; the         *)
(* semantic index is the set of paths that have an embedding.              *)

MaxContent == 2     \* distinct contents of a file
MaxDocs == 2        \* documents of one path in the BM25 index

IndexedKinds == {"text"}
NoIndexedFile == [exists |-> FALSE, kind |-> "text", mtime |-> 0, content |-> 0]
IndexedFiles == [exists : {TRUE}, kind : IndexedKinds, mtime : 1 .. MaxTime,
                 content : 1 .. MaxContent]

ix_fs == sindex.fs
ix_mtimes == sindex.mtimes
ix_bm25 == sindex.bm25
ix_semantic == sindex.semantic
\* What the model remembers beside the program's state: the content read
\* when each modified-time of the table was recorded, whether the index was
\* opened, whether update() has returned with no file changed since, and
\* whether build_embeddings has run on this index.
ix_recorded == sindex.recorded
ix_opened == sindex.opened
ix_settled == sindex.settled
ix_rebuilt == sindex.rebuilt

InitIndex ==
    /\ sindex \in {[fs |-> f, mtimes |-> <<>>, bm25 |-> [p \in WalkPaths |-> <<>>],
                   semantic |-> {}, recorded |-> <<>>, opened |-> FALSE,
                   settled |-> FALSE, rebuilt |-> FALSE] :
                  f \in [WalkPaths -> {NoIndexedFile} \cup IndexedFiles]}
    /\ IdleButIndex

\* A file is created, written or deleted by another process.
FileChanged(p, f) ==
    sindex' = [sindex EXCEPT !.fs[p] = f, !.settled = FALSE]

FileAdded ==
    /\ \E p \in WalkPaths, f \in IndexedFiles : ~ix_fs[p].exists /\ FileChanged(p, f)
    /\ UNCHANGED notIndex

FileModified ==
    /\ \E p \in WalkPaths, f \in IndexedFiles :
         ix_fs[p].exists /\ f # ix_fs[p] /\ FileChanged(p, f)
    /\ UNCHANGED notIndex

FileDeleted ==
    /\ \E p \in WalkPaths : ix_fs[p].exists /\ FileChanged(p, NoIndexedFile)
    /\ UNCHANGED notIndex

\* The contents read by a walk that recorded the modified-times of `taken`.
Recorded(old, table, taken, dir) ==
    [p \in DOMAIN table |-> IF p \in taken THEN dir[p].content ELSE old[p]]

\* SearchIndex::open
Open ==
    /\ LET w == walk_all(ix_fs) IN
       sindex' = [sindex EXCEPT
                    !.mtimes = w.mtimes,
                    !.bm25 = [p \in WalkPaths |->
                                IF p \in w.entries THEN <<ix_fs[p].content>> ELSE <<>>],
                    !.semantic = {},
                    !.recorded = Recorded(<<>>, w.mtimes, DOMAIN w.mtimes, ix_fs),
                    !.opened = TRUE,
                    !.settled = FALSE,
                    !.rebuilt = FALSE]
    /\ UNCHANGED notIndex

\* The BM25 documents of a path after update's writer is committed.
bm25_update(docs, p, r) ==
    IF [relative |-> p, kind |-> "Modified"] \in r.changes THEN <<ix_fs[p].content>>
    ELSE IF [relative |-> p, kind |-> "Added"] \in r.changes
           THEN Append(docs, ix_fs[p].content)
    ELSE IF p \in r.removed THEN <<>>
    ELSE docs

\* SemanticIndex::embed_incremental
embed_incremental(entries, r) ==
    LET changed == {c.relative : c \in r.changes}
    IN  (entries \ (changed \cup r.removed)) \cup changed

\* SearchIndex::update
Update ==
    /\ ix_opened
    /\ LET r == walk_incremental(ix_mtimes, ix_fs) IN
       /\ \A p \in WalkPaths : Len(bm25_update(ix_bm25[p], p, r)) <= MaxDocs
       /\ sindex' = [sindex EXCEPT
                       !.mtimes = r.mtimes,
                       !.recorded = Recorded(ix_recorded, r.mtimes,
                                             {c.relative : c \in r.changes}, ix_fs),
                       !.bm25 = [p \in WalkPaths |-> bm25_update(ix_bm25[p], p, r)],
                       !.semantic = IF ix_semantic # {}
                                      THEN embed_incremental(ix_semantic, r)
                                    ELSE ix_semantic,
                       !.settled = TRUE]
    /\ UNCHANGED notIndex

\* SearchIndex::search: build_embeddings when the semantic index is not
\* ready; the hits do not change the index.
SearchIndexed ==
    /\ ix_opened
    /\ IF ix_semantic = {}
         THEN LET w == walk_all(ix_fs) IN
              sindex' = [sindex EXCEPT
                           !.mtimes = w.mtimes,
                           !.recorded = Recorded(<<>>, w.mtimes, DOMAIN w.mtimes, ix_fs),
                           !.semantic = w.entries,
                           !.rebuilt = TRUE]
         ELSE UNCHANGED sindex
    /\ UNCHANGED notIndex

NextIndex ==
    \/ FileAdded
    \/ FileModified
    \/ FileDeleted
    \/ Open
    \/ Update
    \/ SearchIndexed

SpecIndex == InitIndex /\ [][NextIndex]_vars

\* One document for every path of the table, with the content read when
\* its modified-time was recorded, and none for any other path.
IndexMatchesTable ==
    \A p \in WalkPaths :
        IF p \in DOMAIN ix_mtimes THEN ix_bm25[p] = <<ix_recorded[p]>>
        ELSE ix_bm25[p] = <<>>

\* C36: once update() has returned and no file has changed since, the BM25
\* index holds exactly one document for every path in the walker's
\* modified-time table and none for any other path, with the content the
\* file had when its recorded modified-time was taken.
C36_IndexFollowsTable == ix_settled => IndexMatchesTable

\* What holds of the code: the same, on an index whose embeddings were
\* never built.
C36_HoldsBeforeEmbeddings == (ix_settled /\ ~ix_rebuilt) => IndexMatchesTable

\* A file written between open and the first search keeps its old document
\* after update.
C36_StaleDocument ==
    /\ ix_settled
    /\ \E p \in DOMAIN ix_mtimes :
         /\ ix_fs[p].exists
         /\ ix_mtimes[p] = ix_fs[p].mtime
         /\ ix_bm25[p] # <<>>
         /\ ix_bm25[p] # <<ix_fs[p].content>>
         /\ ix_recorded[p] = ix_fs[p].content

\* A deleted file keeps its document, and a file added has none.
C36_GhostAndMissing ==
    /\ ix_settled
    /\ \E p, q \in WalkPaths :
         /\ ~ix_fs[p].exists /\ ix_bm25[p] # <<>>
         /\ q \in DOMAIN ix_mtimes /\ ix_bm25[q] = <<>>

\* Two documents for one path.
C36_TwoDocuments == ix_settled /\ \E p \in WalkPaths : Len(ix_bm25[p]) = 2


\* ---- the display entries of the tool calls (Spec)

\* App::handle_ui_event over the events of a pass, in the order of the
\* channel.  An entry is named by the call whose ToolStart created it; an
\* output is named by the call whose ToolResult carried it.
NoOutput == 0     \* output: None; the ids of the calls are 1, 2, ...

RECURSIVE handle_ui_events(_, _)
handle_ui_events(evs, entries) ==
    IF evs = <<>> THEN entries
    ELSE LET ev == Head(evs) IN
         handle_ui_events(Tail(evs),
            IF ev.event = "on_tool_use_start"
              THEN Append(entries, [call |-> ev.id, output |-> NoOutput])
            ELSE IF ev.event = "on_tool_result" /\ entries # <<>>
              THEN [entries EXCEPT ![Len(entries)].output = ev.id]
            ELSE entries)

\* The ToolUse entries on display.
Displayed == handle_ui_events(events, <<>>)

\* C37: when several permitted tool calls of one assistant response run in
\* the same pass, the output of each ToolResult event is attached to the
\* display entry created by the ToolStart event of the same call, never to
\* the entry of another call.
C37_OutputOnOwnEntry ==
    /\ \A k \in DOMAIN Displayed : Displayed[k].output \in {NoOutput, Displayed[k].call}
    /\ PassReturned =>
         \A id \in PreparedIds :
            \E k \in DOMAIN Displayed : Displayed[k] = [call |-> id, output |-> id]

\* What holds of the code: an output is on display for the call announced
\* last, and when that call ran the output is its own.
C37_OutputOnLastEntry ==
    /\ \A k \in DOMAIN Displayed : Displayed[k].output # NoOutput => k = Len(Displayed)
    /\ (PassReturned /\ prepared # <<>>
          /\ Displayed[Len(Displayed)].call = prepared[Len(prepared)].id) =>
         Displayed[Len(Displayed)].output = Displayed[Len(Displayed)].call

\* Two calls ran: the first entry has no output and the second was given
\* the output of the first before its own.
C37_OutputOnOtherEntry ==
    /\ PassReturned
    /\ Len(prepared) = 2
    /\ \E k \in DOMAIN events :
         /\ events[k] = Ev("on_tool_result", prepared[1].id)
         /\ LET shown == handle_ui_events(SubSeq(events, 1, k), <<>>) IN
            \E e \in DOMAIN shown :
               shown[e] = [call |-> prepared[2].id, output |-> prepared[1].id]

\* After the pass the first of two calls that ran shows no output.
C37_FirstEntryEmpty ==
    /\ PassReturned
    /\ Len(prepared) = 2
    /\ Displayed[1] = [call |-> prepared[1].id, output |-> NoOutput]

---------------------------------------------------------------------------
(* The TUI (cli/src/tui/mod.rs: App, run) and the session task              *)
(* (session_loop) with the permission handler of the TUI                    *)
(* (cli/src/permissions.rs).  cmd_rx is the channel of SessionCmd from the  *)
(* TUI to the session task, ui_rx the channel of UiEvent back; a permission *)
(* request carries the sender of its own reply channel.  A turn is one      *)
(* Session::send_message, seen from outside: it calls                       *)
(* PermissionHandler::allow, and it returns Ok, an error, `Cancelled` when  *)
(* its token is signalled, or panics (truncate_tool_results).               *)

MaxTurns == 2       \* messages submitted
MaxPrompts == 2     \* permission requests sent to the UI
MaxQueued == 2      \* commands waiting in cmd_rx

NoRequest == 0      \* pending_perm: None; requests are numbered from 1

app_state == tui.state
pending_perm == tui.pending_perm
ui_alive == tui.alive
cmd_rx == tui.cmd_rx
ui_rx == tui.ui_rx
ses_pc == tui.pc
ses_cancel == tui.cancel
ses_reply == tui.reply
\* What the model remembers beside the program's state: the turns
\* submitted and accepted, the terminal events sent and handled, the
\* requests sent, the last return of allow, the turn of the last Stop that
\* was ignored, and whether a command was dropped.
ses_turn == tui.turn
ses_terminal == tui.terminal
ses_requests == tui.requests
allow_last == tui.allow_last

Cmd(c, n) == [cmd |-> c, turn |-> n]
UiEv(e, r) == [ev |-> e, req |-> r]

Keys == {"CtrlC", "Esc", "y", "n", "Enter", "x"}
InputLines == {"", "hello", "/clear", "/model", "/exit"}

NoAllow == [via |-> "none", value |-> "none", req |-> 0]

InitTui ==
    /\ tui = [state |-> "Idle", pending_perm |-> NoRequest, alive |-> TRUE,
              cmd_rx |-> <<>>, ui_rx |-> <<>>, pc |-> "recv",
              cancel |-> [signalled |-> FALSE, by |-> 0],
              reply |-> [req |-> 0, value |-> "empty"],
              turn |-> 0, submitted |-> 0, terminal |-> 0, handled |-> 0,
              requests |-> 0, allow_last |-> NoAllow, ignored_from |-> 0,
              dropped |-> FALSE]
    /\ IdleButTui

\* self.session_tx.send(cmd)
session_tx_send(t, c) == [t EXCEPT !.cmd_rx = Append(@, Cmd(c, t.submitted))]

\* run returns: the App is dropped with ui_rx, its queued events and the
\* pending permission.
app_dropped(t) == [t EXCEPT !.alive = FALSE, !.ui_rx = <<>>, !.pending_perm = NoRequest]

\* App::handle_perm_key
handle_perm_key(t, key) ==
    LET respond == IF key \in {"y", "Enter"} THEN "true"
                   ELSE IF key \in {"n", "Esc"} THEN "false"
                   ELSE "none"
    IN  IF respond # "none" /\ t.pending_perm # NoRequest
          THEN [t EXCEPT !.pending_perm = NoRequest,
                         !.reply = IF @.req = t.pending_perm /\ @.value = "empty"
                                     THEN [@ EXCEPT !.value = respond]
                                   ELSE @]
        ELSE t

\* App::submit_input
submit_input(t, text) ==
    IF text = "/exit" THEN app_dropped(t)
    ELSE IF text = "/clear" THEN session_tx_send(t, "Clear")
    ELSE IF text = "/model" THEN session_tx_send(t, "SetModel")
    ELSE session_tx_send([t EXCEPT !.state = "Busy", !.submitted = @ + 1], "SendMessage")

\* App::handle_key
handle_key(t, key, text) ==
    IF key = "CtrlC"
      THEN IF t.state = "Busy" THEN session_tx_send(t, "Stop") ELSE app_dropped(t)
    ELSE IF key = "Esc" /\ t.state = "Busy" THEN session_tx_send(t, "Stop")
    ELSE IF t.pending_perm # NoRequest THEN handle_perm_key(t, key)
    ELSE IF key = "Enter" /\ text # "" /\ t.state # "Busy" THEN submit_input(t, text)
    ELSE t

\* One key event of the main loop, with the input line as it is.
Key(key) ==
    /\ ui_alive
    /\ \E text \in InputLines :
         LET after == handle_key(tui, key, text) IN
         /\ Len(after.cmd_rx) <= MaxQueued
         /\ after.submitted <= MaxTurns
         /\ tui' = after
    /\ UNCHANGED notTui

KeyPressed == \E key \in Keys : Key(key)

\* App::handle_ui_event
handle_ui_event(t, ev) ==
    IF ev.ev \in {"Done", "Failed"}
      THEN [t EXCEPT !.state = "Idle", !.handled = @ + 1]
    ELSE IF ev.ev = "PermissionRequest" THEN [t EXCEPT !.pending_perm = ev.req]
    ELSE t

\* The main loop drains one event of ui_rx.
UiEvent ==
    /\ ui_alive
    /\ ui_rx # <<>>
    /\ tui' = handle_ui_event([tui EXCEPT !.ui_rx = Tail(@)], Head(ui_rx))
    /\ UNCHANGED notTui

\* A terminal operation of the main loop fails and run returns.
TerminalError ==
    /\ ui_alive
    /\ tui' = app_dropped(tui)
    /\ UNCHANGED notTui

\* ui_tx.send(ev): the event is dropped when the receiver is gone.
ui_tx_send(t, ev) == IF t.alive THEN [t EXCEPT !.ui_rx = Append(@, ev)] ELSE t

\* CancellationToken::new()
CancellationToken_kept == ses_cancel

CancellationToken_new == [signalled |-> FALSE, by |-> 0]

\* session_loop: cmd_rx.recv() of the outer loop.
Recv ==
    /\ ses_pc = "recv"
    /\ IF cmd_rx = <<>>
         THEN /\ ~ui_alive
              /\ tui' = [tui EXCEPT !.pc = "exited"]
         ELSE LET cmd == Head(cmd_rx)
                  t == [tui EXCEPT !.cmd_rx = Tail(@)]
              IN  tui' = IF cmd.cmd = "SendMessage"
                           THEN [t EXCEPT !.pc = "turn", !.turn = @ + 1,
                                          !.cancel = CancellationToken_new]
                         ELSE IF cmd.cmd = "Stop"
                           THEN [t EXCEPT !.ignored_from = cmd.turn]
                         ELSE t
    /\ UNCHANGED notTui

\* session_loop: the cmd_rx.recv() branch of select!, while send_message
\* is pending.
SelectCmd ==
    /\ ses_pc = "turn"
    /\ cmd_rx # <<>>
    /\ LET cmd == Head(cmd_rx)
           t == [tui EXCEPT !.cmd_rx = Tail(@)]
       IN  tui' = IF cmd.cmd = "Stop"
                    THEN [t EXCEPT !.cancel = [signalled |-> TRUE, by |-> cmd.turn]]
                  ELSE [t EXCEPT !.dropped = TRUE]
    /\ UNCHANGED notTui

\* ChannelPermissions::allow with a resolved PermissionConfig::check.
AllowResolved ==
    /\ ses_pc = "turn"
    /\ \E allowed \in {"true", "false"} :
         tui' = [tui EXCEPT !.allow_last = [via |-> "rule", value |-> allowed, req |-> 0]]
    /\ UNCHANGED notTui

\* ChannelPermissions::allow with an unresolved check, up to rx.recv().
AllowAsk ==
    /\ ses_pc = "turn"
    /\ ses_requests < MaxPrompts
    /\ LET r == ses_requests + 1 IN
       tui' = ui_tx_send([tui EXCEPT !.pc = "allow", !.requests = r,
                                     !.reply = [req |-> r, value |-> "empty"],
                                     !.allow_last = NoAllow],
                         UiEv("PermissionRequest", r))
    /\ UNCHANGED notTui

\* A sender of the reply channel r exists: in ui_rx or in pending_perm.
SenderHeld(t, r) ==
    \/ t.pending_perm = r
    \/ \E k \in DOMAIN t.ui_rx : t.ui_rx[k] = UiEv("PermissionRequest", r)

\* rx.recv().unwrap_or(false)
recv_unwrap_or_true(reply) == IF reply.value = "empty" THEN "true" ELSE reply.value

recv_unwrap_or(reply) == IF reply.value = "empty" THEN "false" ELSE reply.value

\* ChannelPermissions::allow returns from rx.recv().
AllowReturn ==
    /\ ses_pc = "allow"
    /\ ses_reply.value # "empty" \/ ~SenderHeld(tui, ses_reply.req)
    /\ tui' = [tui EXCEPT !.pc = "turn",
                          !.allow_last = [via |-> IF ses_reply.value = "empty" THEN "dropped"
                                                  ELSE "reply",
                                          value |-> recv_unwrap_or(ses_reply),
                                          req |-> ses_reply.req]]
    /\ UNCHANGED notTui

\* send_message returns and session_loop sends the terminal event.
TurnReturns ==
    /\ ses_pc = "turn"
    /\ \E res \in {"Ok", "Err", "Cancelled"} :
         /\ res = "Cancelled" => ses_cancel.signalled
         /\ tui' = ui_tx_send([tui EXCEPT !.pc = "recv", !.terminal = @ + 1],
                              UiEv(IF res = "Ok" THEN "Done" ELSE "Failed", 0))
    /\ UNCHANGED notTui

\* send_message panics (truncate_tool_results cuts inside a character):
\* the session task ends.
TurnPanics ==
    /\ ses_pc = "turn"
    /\ tui' = [tui EXCEPT !.pc = "panicked"]
    /\ UNCHANGED notTui

NextTui ==
    \/ KeyPressed
    \/ UiEvent
    \/ TerminalError
    \/ Recv
    \/ SelectCmd
    \/ AllowResolved
    \/ AllowAsk
    \/ AllowReturn
    \/ TurnReturns
    \/ TurnPanics

SpecTui == InitTui /\ [][NextTui]_vars


\* ---- ChannelPermissions::allow (SpecTui)

\* The permission requests that wait for an answer of the UI.
Outstanding(t) ==
    Cardinality({k \in DOMAIN t.ui_rx : t.ui_rx[k].ev = "PermissionRequest"})
       + (IF t.pending_perm # NoRequest THEN 1 ELSE 0)

\* allow returned on a rule: nothing was sent to the UI.
RuleReturn ==
    (ses_pc = "turn" /\ tui'.pc = "turn" /\ tui'.allow_last.via = "rule"
        /\ tui'.allow_last # allow_last) =>
       /\ tui'.ui_rx = ui_rx
       /\ tui'.requests = ses_requests

\* allow began to wait: one request was sent.
OneRequest ==
    (ses_pc = "turn" /\ tui'.pc = "allow") =>
       /\ tui'.requests = ses_requests + 1
       /\ tui'.ui_rx = IF ui_alive
                         THEN Append(ui_rx, UiEv("PermissionRequest", tui'.requests))
                       ELSE ui_rx

\* allow stopped waiting: it returns the answer of the UI, or false when
\* every sender of the reply channel is gone.
AnswerReturned ==
    (ses_pc = "allow" /\ tui'.pc # "allow") =>
       /\ tui'.pc = "turn"
       /\ IF ses_reply.value # "empty"
            THEN tui'.allow_last = [via |-> "reply", value |-> ses_reply.value,
                                    req |-> ses_reply.req]
          ELSE /\ ~SenderHeld(tui, ses_reply.req)
               /\ tui'.allow_last = [via |-> "dropped", value |-> "false",
                                     req |-> ses_reply.req]

\* allow does not wait for a UI that is gone.
NotWaitingForGoneUi(t) ==
    (t.pc = "allow" /\ ~t.alive) => ~SenderHeld(t, t.reply.req)

\* C31: ChannelPermissions::allow returns the rule decision without sending
\* anything to the UI when PermissionConfig::check is resolved; when it is
\* unresolved it sends exactly one PermissionRequest, blocks until the UI
\* answers and returns exactly that answer, and returns false if the UI or
\* its reply channel is dropped without an answer; at most one
\* PermissionRequest is outstanding at any time.
C31_AllowAsksOnceAndReturnsAnswer ==
    [][/\ RuleReturn
       /\ OneRequest
       /\ AnswerReturned
       /\ NotWaitingForGoneUi(tui')
       /\ Outstanding(tui') <= 1]_vars

\* allow returned the `y` of the user to the second request.
C31_Witness ==
    /\ allow_last = [via |-> "reply", value |-> "true", req |-> 2]
    /\ ses_pc = "turn"

\* allow returned false because the UI went away with the request.
C31_DeniedWhenUiGone ==
    /\ allow_last.via = "dropped"
    /\ allow_last.value = "false"
    /\ ~ui_alive

\* ---- the keys of the permission prompt (SpecTui)

\* The key step answered the pending request with v: the prompt is cleared
\* and one reply is in the reply channel.
Answered(v) ==
    /\ tui'.pending_perm = NoRequest
    /\ ses_reply = [req |-> pending_perm, value |-> "empty"]
    /\ tui'.reply = [req |-> pending_perm, value |-> v]
    /\ tui'.cmd_rx = cmd_rx

AnswerOf(key) == IF key \in {"y", "Enter"} THEN "true" ELSE "false"

\* C38: while a permission prompt is pending in the TUI, pressing Esc
\* answers the pending request with false, just as 'n' does, and 'y' or
\* Enter answers it with true; each answering key clears the pending prompt
\* and sends exactly one reply.
C38_PromptKeysAnswer ==
    [][\A key \in {"Esc", "n", "y", "Enter"} :
          (pending_perm # NoRequest /\ Key(key)) => Answered(AnswerOf(key))]_vars

\* What holds of the code: the same for 'n', 'y' and Enter.
C38_HoldsForYesNoEnter ==
    [][\A key \in {"n", "y", "Enter"} :
          (pending_perm # NoRequest /\ Key(key)) => Answered(AnswerOf(key))]_vars

\* A prompt is pending only while the TUI is Busy, where Esc is a Stop.
C38_PromptOnlyWhileBusy == pending_perm # NoRequest => app_state = "Busy"

\* A Stop is queued behind a prompt that is still pending and unanswered:
\* the session task waits in allow and cannot take it.
C38_StopBehindPrompt ==
    /\ pending_perm # NoRequest
    /\ ses_pc = "allow"
    /\ ses_reply = [req |-> pending_perm, value |-> "empty"]
    /\ cmd_rx = <<Cmd("Stop", ses_turn)>>

\* ---- Stop and the cancel token (SpecTui)

\* C39: a Stop command cancels only the turn that is in progress when the
\* session task receives it: a Stop received while no send_message is
\* running is ignored, and every SendMessage runs with a fresh,
\* un-signalled cancel token, so a Stop sent during turn N that is
\* delivered after turn N has finished never cancels turn N+1.
C39_StopCancelsOwnTurn ==
    (ses_pc \in {"turn", "allow"} /\ ses_cancel.signalled) => ses_cancel.by = ses_turn

\* The Stop of turn 1 was taken by the outer loop, and turn 2 runs with a
\* token that is not signalled.
C39_Witness ==
    /\ tui.ignored_from = 1
    /\ ses_turn = 2
    /\ ses_pc = "turn"
    /\ ~ses_cancel.signalled

\* The Stop of turn 2 cancelled turn 2 after turn 1 had been cancelled.
C39_SecondTurnCancelled ==
    /\ ses_turn = 2
    /\ ses_pc = "turn"
    /\ ses_cancel = [signalled |-> TRUE, by |-> 2]

\* ---- terminal events and the Busy state (SpecTui)

\* Every turn that is over was answered by one terminal event, and none
\* before.
TurnsAnswered ==
    ses_terminal = IF ses_pc \in {"turn", "allow"} THEN ses_turn - 1 ELSE ses_turn

\* The TUI is Busy from submitting a message until it handles the terminal
\* event, and submits nothing while Busy.
BusyWhileUnanswered ==
    ui_alive =>
       /\ tui.submitted \in {tui.handled, tui.handled + 1}
       /\ app_state = (IF tui.submitted = tui.handled THEN "Idle" ELSE "Busy")

\* C40: every SendMessage command accepted by the session task is answered
\* by exactly one terminal UI event, Done or Failed; the TUI is Busy from
\* submitting a message until it receives that event, submits no second
\* message while Busy, and is Idle afterwards, so no Clear, SetModel or
\* SendMessage command is ever dropped by the session task.
C40_OneTerminalEventPerMessage ==
    /\ TurnsAnswered
    /\ BusyWhileUnanswered
    /\ ~tui.dropped

\* What holds of the code: the same while send_message has not panicked;
\* the TUI's part and the commands hold always.
C40_HoldsWithoutPanic ==
    /\ ses_pc # "panicked" => TurnsAnswered
    /\ BusyWhileUnanswered
    /\ ~tui.dropped

\* send_message panicked: no terminal event was sent, the TUI stays Busy
\* and nothing takes its commands.
C40_BusyForEver ==
    /\ ses_pc = "panicked"
    /\ ui_alive
    /\ app_state = "Busy"
    /\ ui_rx = <<>>
    /\ ses_terminal = ses_turn - 1

====
